---- MODULE Spec2Model ----
(***************************************************************************)
(* A model of the elcano-nav chart plotter: the trip/logbook Store         *)
(* (application/database_manager.py), the SyncManager and the              *)
(* NavigationSystem controller (application/gps_navigation.py) and the     *)
(* trip menu the controller drives (menu_system.py); with them the         *)
(* hierarchical menu (application/menu_system.py), the GPSModule and the   *)
(* compass (application/gy511_sensor.py), the MBTilesManager and the zoom  *)
(* choice of its readers (application/mbtiles_manager.py,                  *)
(* application/mbtiles_to_png.py).                                         *)
(*                                                                         *)
(* All threads of the program share one sqlite3 connection opened with     *)
(* check_same_thread=False.  The model therefore keeps two views of the    *)
(* database: the connection's view (trips, logbook, kv), which every       *)
(* reader of the program sees and which includes statements that have not  *)
(* been committed, and the committed view (durable), which a commit by any *)
(* thread replaces by the connection's view.                               *)
(***************************************************************************)
EXTENDS Integers, Sequences, FiniteSets, TLC

----------------------------------------------------------------------------
(* Bounds of the model *)

\* trips known to the server; trip ids are 1..MaxTrips
MaxTrips == 2
\* logbook entries the main loop inserts
MaxEntries == 2
\* background threads the program spawns in one run
MaxTasks == 2
\* trips in one pulled payload
MaxPayload == 2
\* start/stop operations made from the menu
MaxChanges == 2
\* zoom levels the configuration allows below and above the default
ZoomRange == 1
\* distinct timestamps a caller gives to logbook entries
MaxStamp == 2
\* menus on the menu_stack of the hierarchical menu
MaxStack == 3
\* the highest speed the receiver reports, in km/h
MaxSpeed == 4
\* the receiver reports headings that are multiples of HeadingStep degrees
HeadingStep == 10
\* the compass reports headings that are multiples of CompassStep degrees
CompassStep == 90
\* the oldest compass sample told apart, in seconds
MaxCompassAge == 6
\* .mbtiles files in the assets folder
MaxArchives == 4
\* latitudes and longitudes are 0..MaxCoord
MaxCoord == 1
\* zoom levels an archive may hold: 12 - ZoomSpan .. 12 + ZoomSpan
ZoomSpan == 2
\* waypoints of a route given to the renderer
MaxRoute == 3
\* a waypoint lies at most MaxTileOffset tiles east or west of the center
MaxTileOffset == 2
\* a trip of a payload has at most MaxPoints waypoints
MaxPoints == 2
\* the waypoints table holds at most MaxWaypointRows rows
MaxWaypointRows == 4
\* the latitude and the longitude of a GGA sentence are 1..MaxDegrees
MaxDegrees == 1
\* the satellites and the altitude of a GGA sentence are 1..MaxCount
MaxCount == 2

----------------------------------------------------------------------------
(* Values *)

TripIds == 1..MaxTrips
NoTrip == 0
TaskIds == 1..MaxTasks
NULL == "NULL"
PENDING == "pending"
SYNCED == "synced"

\* statuses the server sends for a trip: one the menu offers to start, and
\* one it does not
RemoteStatuses == {"NOT_STARTED", "COMPLETED"}

\* outcomes of one HTTP request: 0 is a network error (an exception of
\* requests), the others are the status code of the response
Responses == {0, 200, 201, 500}

\* the sync key as SyncManager.__init__ finds it: None, or a text
NoKey == [set |-> FALSE, text |-> ""]
Key(text) == [set |-> TRUE, text |-> text]
SyncKeys == {NoKey, Key(""), Key("DEFAULT"), Key("SHORTKEY"), Key("ELCANO-KEY-0001")}

\* Python truthiness of self.sync_key ("if not self.sync_key")
Truthy(key) == key.set /\ key.text # ""

is_enabled(key) == key.set

invalid_keys == {"ABC1234567", "PLACEHOLDER", "DEFAULT", "TEST123456"}

is_valid_sync_key(key) ==
    IF ~Truthy(key) THEN FALSE
    ELSE key.text \notin invalid_keys /\ Len(key.text) >= 10

----------------------------------------------------------------------------
(* The trips table.  A row that is not in the table has rowid 0.  origin   *)
(* tells whether the row was last written by store_device_sync_data, and   *)
(* by which call: the thread that is storing its payload, Abandoned once   *)
(* that call has given up part-way, 0 once it has stored the whole payload *)
(* (and for a row no pull has written).  chg numbers the start/stop        *)
(* operation that last set the row's local_status.                         *)

Abandoned == 99

NoRow == [rowid |-> 0, status |-> NULL, local_status |-> NULL,
          sync_status |-> NULL, is_active |-> FALSE, origin |-> 0, chg |-> 0]

EmptyTrips == [id \in TripIds |-> NoRow]

Exists(tr, id) == id \in TripIds /\ tr[id].rowid > 0

RowCount(tr) == Cardinality({id \in TripIds : tr[id].rowid > 0})

\* the trip with a given rowid
ByRowid(tr, n) == CHOOSE id \in TripIds : tr[id].rowid = n

\* the ids of a set of rows as the table scan returns them (rowid order)
RECURSIVE ScanFrom(_, _, _)
ScanFrom(tr, n, keep) ==
    IF n > RowCount(tr) THEN <<>>
    ELSE LET id == ByRowid(tr, n)
         IN  (IF id \in keep THEN <<id>> ELSE <<>>) \o ScanFrom(tr, n + 1, keep)

\* UPDATE trips SET status = ?, local_status = ? WHERE id = ?
update_trip_status(tr, id, status) ==
    IF Exists(tr, id)
    THEN [tr EXCEPT ![id].status = status, ![id].local_status = status]
    ELSE tr

\* UPDATE trips SET sync_status = 'synced', local_status = NULL WHERE id = ?
mark_trip_synced(tr, id) ==
    IF Exists(tr, id)
    THEN [tr EXCEPT ![id].sync_status = SYNCED, ![id].local_status = NULL]
    ELSE tr

NeedsSync(row) ==
    /\ row.rowid > 0
    /\ row.local_status # NULL
    /\ (row.sync_status = PENDING \/ row.sync_status = NULL)

\* SELECT * FROM trips WHERE local_status IS NOT NULL AND (sync_status =
\* 'pending' OR sync_status IS NULL): no ORDER BY, the rows of a table scan
get_trips_needing_sync(tr) ==
    ScanFrom(tr, 1, {id \in TripIds : NeedsSync(tr[id])})

\* SELECT * FROM trips ORDER BY created_at DESC
RECURSIVE Reverse(_)
Reverse(s) == IF s = <<>> THEN <<>> ELSE Reverse(Tail(s)) \o <<Head(s)>>

get_trips(tr) == Reverse(ScanFrom(tr, 1, TripIds))

\* set_active without its WHERE clause: every trip is marked
set_active_trip_NoWhere(tr, id) ==
    [t \in TripIds |-> [tr[t] EXCEPT !.is_active = (id # NoTrip /\ tr[t].rowid > 0)]]

\* set_active that clears every trip and then marks its target
set_active_trip_ClearFirst(tr, id) ==
    [t \in TripIds |-> [tr[t] EXCEPT !.is_active = (t = id /\ tr[t].rowid > 0)]]

\* set_active(id): marks one trip active and clears all others in one
\* statement; set_active(None) clears all; a call whose target is not in
\* the table changes nothing
set_active_trip(tr, id) ==
    IF id # NoTrip /\ ~Exists(tr, id) THEN tr
    ELSE [t \in TripIds |-> [tr[t] EXCEPT !.is_active = (t = id /\ tr[t].rowid > 0)]]

ActiveTrips(tr) == {id \in TripIds : tr[id].rowid > 0 /\ tr[id].is_active}

get_active_trip(tr) ==
    IF ActiveTrips(tr) = {} THEN NoTrip ELSE CHOOSE id \in ActiveTrips(tr) : TRUE

----------------------------------------------------------------------------
(* The logbook table: entry ids are the positions (AUTOINCREMENT from 1).  *)

Range(s) == {s[i] : i \in 1..Len(s)}

\* INSERT INTO logbook_entries (timestamp, ..., trip_id, ...) with the
\* timestamp of entry_data; sync_status defaults to 'pending'
InsertEntry(lb, entry_data) ==
    Append(lb, [trip_id |-> entry_data.trip_id, sync_status |-> PENDING,
                timestamp |-> entry_data.timestamp])

\* the entry the main loop records for the active trip, stamped by a clock
\* that has moved on since the entry before
add_logbook_entry(lb, trip_id) ==
    InsertEntry(lb, [trip_id |-> trip_id, timestamp |-> Len(lb) + 1])

\* the orders in which SELECT ... ORDER BY timestamp can return the rows
\* ids: every arrangement sorted by timestamp (descending if desc); rows
\* with equal timestamps come in any order
OrderByTimestamp(lb, ids, desc) ==
    {s \in [1..Cardinality(ids) -> ids] :
       /\ \A i, j \in 1..Cardinality(ids) : s[i] = s[j] => i = j
       /\ \A i, j \in 1..Cardinality(ids) :
            i < j => IF desc THEN lb[s[i]].timestamp >= lb[s[j]].timestamp
                     ELSE lb[s[i]].timestamp <= lb[s[j]].timestamp}

\* the query without its WHERE clause
get_unsynced_logbook_entries_NoWhere(lb) ==
    OrderByTimestamp(lb, 1..Len(lb), FALSE)

\* SELECT * FROM logbook_entries WHERE sync_status = 'pending' ORDER BY
\* timestamp ASC: the results the query can give
get_unsynced_logbook_entries(lb) ==
    OrderByTimestamp(lb, {i \in 1..Len(lb) : lb[i].sync_status = PENDING}, FALSE)

\* SELECT * FROM logbook_entries [WHERE trip_id = ?] ORDER BY timestamp
\* DESC LIMIT ?: the results the query can give ("if trip_id": without a
\* trip id the entries of all trips)
get_logbook_entries(lb, trip_id, limit) ==
    LET ids == {i \in 1..Len(lb) : trip_id = NoTrip \/ lb[i].trip_id = trip_id}
    IN  {SubSeq(s, 1, IF limit < Len(s) THEN limit ELSE Len(s)) :
           s \in OrderByTimestamp(lb, ids, TRUE)}

\* one UPDATE logbook_entries SET sync_status = 'synced' WHERE id = ?
MarkEntry(lb, id) ==
    IF id \in 1..Len(lb) THEN [lb EXCEPT ![id].sync_status = SYNCED] ELSE lb

\* mark_logbook_entries_synced(entry_ids): one UPDATE for each id in turn
RECURSIVE mark_logbook_entries_synced(_, _)
mark_logbook_entries_synced(lb, entry_ids) ==
    IF entry_ids = <<>> THEN lb
    ELSE mark_logbook_entries_synced(MarkEntry(lb, Head(entry_ids)), Tail(entry_ids))

----------------------------------------------------------------------------
(* The trip menu (menu_system.py).  Indices are 0-based as in the code.    *)

HIDDEN == "hidden"
TRIP_LIST == "trip_list"
TRIP_SELECTED == "trip_selected"

\* a trip as a dict read from the database
NoneTrip == [id |-> NoTrip, status |-> NULL, local_status |-> NULL]
TripDict(tr, id) ==
    [id |-> id, status |-> tr[id].status, local_status |-> tr[id].local_status]

InitMenu == [state |-> HIDDEN, trips |-> <<>>, selected_trip_index |-> 0,
             selected_trip |-> NoneTrip, menu_options |-> <<>>,
             selected_option_index |-> 0]

_setup_trip_options(m) ==
    IF m.selected_trip = NoneTrip THEN m
    ELSE LET status == IF m.selected_trip.local_status # NULL
                       THEN m.selected_trip.local_status
                       ELSE m.selected_trip.status
             options == IF status \in {"NOT_STARTED", "NOT_COMPLETED"}
                        THEN <<"Start Trip", "Back">>
                        ELSE IF status = "IN_ROUTE"
                             THEN <<"Stop Trip", "Back">>
                             ELSE <<"Back">>
         IN  [m EXCEPT !.menu_options = options, !.selected_option_index = 0]

_show_trip_list(m, tr) ==
    LET ids == get_trips(tr)
        rows == [i \in 1..Len(ids) |-> TripDict(tr, ids[i])]
        active_trip_ == get_active_trip(tr)
    IN  IF active_trip_ # NoTrip
        THEN _setup_trip_options([m EXCEPT !.trips = rows,
                                           !.selected_trip = TripDict(tr, active_trip_),
                                           !.state = TRIP_SELECTED])
        ELSE [m EXCEPT !.trips = rows, !.state = TRIP_LIST,
                       !.selected_trip_index = 0]

hide_menu(m) ==
    [m EXCEPT !.state = HIDDEN, !.selected_trip = NoneTrip, !.menu_options = <<>>]

toggle_menu(m, tr) ==
    IF m.state = HIDDEN THEN _show_trip_list(m, tr) ELSE hide_menu(m)

is_visible(m) == m.state # HIDDEN

navigate_up(m) ==
    IF m.state = TRIP_LIST
    THEN IF m.trips # <<>> /\ m.selected_trip_index > 0
         THEN [m EXCEPT !.selected_trip_index = @ - 1] ELSE m
    ELSE IF m.state = TRIP_SELECTED
         THEN IF m.menu_options # <<>> /\ m.selected_option_index > 0
              THEN [m EXCEPT !.selected_option_index = @ - 1] ELSE m
         ELSE m

navigate_down(m) ==
    IF m.state = TRIP_LIST
    THEN IF m.trips # <<>> /\ m.selected_trip_index < Len(m.trips) - 1
         THEN [m EXCEPT !.selected_trip_index = @ + 1] ELSE m
    ELSE IF m.state = TRIP_SELECTED
         THEN IF m.menu_options # <<>>
                 /\ m.selected_option_index < Len(m.menu_options) - 1
              THEN [m EXCEPT !.selected_option_index = @ + 1] ELSE m
         ELSE m

\* select_current: the menu it leaves and the action it returns
select_current(m, tr) ==
    IF m.state = TRIP_LIST
    THEN IF m.trips # <<>> /\ m.selected_trip_index < Len(m.trips)
         THEN [menu |-> _setup_trip_options(
                          [m EXCEPT !.selected_trip = m.trips[m.selected_trip_index + 1],
                                    !.state = TRIP_SELECTED]),
               action |-> "trip_selected"]
         ELSE [menu |-> m, action |-> "None"]
    ELSE IF m.state = TRIP_SELECTED
              /\ m.menu_options # <<>>
              /\ m.selected_option_index < Len(m.menu_options)
         THEN LET option == m.menu_options[m.selected_option_index + 1]
              IN  IF option = "Start Trip" THEN [menu |-> m, action |-> "start_trip"]
                  ELSE IF option = "Stop Trip" THEN [menu |-> m, action |-> "stop_trip"]
                  ELSE IF get_active_trip(tr) # NoTrip
                       THEN [menu |-> hide_menu(m), action |-> "back_to_map"]
                       ELSE [menu |-> [m EXCEPT !.state = TRIP_LIST],
                             action |-> "back_to_list"]
         ELSE [menu |-> m, action |-> "None"]

go_back(m, tr) ==
    IF m.state = TRIP_SELECTED
    THEN IF get_active_trip(tr) # NoTrip
         THEN [menu |-> hide_menu(m), action |-> "back_to_map"]
         ELSE [menu |-> [m EXCEPT !.state = TRIP_LIST], action |-> "back_to_list"]
    ELSE IF m.state = TRIP_LIST
         THEN [menu |-> hide_menu(m), action |-> "back_to_map"]
         ELSE [menu |-> m, action |-> "None"]

----------------------------------------------------------------------------
(* The hierarchical menu (application/menu_system.py): Menu objects with   *)
(* items and a selected index, MenuSystem with current_menu and            *)
(* menu_stack.  main, trip, logbook and system are built once by           *)
(* _build_menus and have a parent; trips, selected and leaf stand for the  *)
(* menus the callbacks build afresh (index 0, no parent) each time.        *)

StaticMenus == {"main", "trip", "logbook", "system"}
TreeMenus == StaticMenus \cup {"trips", "selected", "leaf"}

Item(kind, to) == [kind |-> kind, to |-> to]

\* the items of a menu of the tree; shown is the number of trips the trips
\* menu was built with ("No trips available" if none)
RECURSIVE Repeat(_, _)
Repeat(x, n) == IF n = 0 THEN <<>> ELSE <<x>> \o Repeat(x, n - 1)

Items(m, shown) ==
    CASE m = "main" -> <<Item("submenu", "trip"), Item("submenu", "logbook"),
                         Item("submenu", "system"), Item("action", "exit_menu")>>
      \* (_start_trip and _stop_trip return a dict and enter no menu)
      [] m = "trip" -> <<Item("callback", "trips"), Item("action", "start_trip"),
                         Item("action", "stop_trip"), Item("action", "back")>>
      [] m = "logbook" -> <<Item("callback", "leaf"), Item("callback", "leaf"),
                            Item("action", "back")>>
      [] m = "system" -> <<Item("callback", "leaf"), Item("callback", "leaf"),
                           Item("callback", "leaf"), Item("callback", "leaf"),
                           Item("action", "back")>>
      [] m = "trips" -> (IF shown = 0 THEN <<Item("none", "")>>
                         ELSE Repeat(Item("callback", "selected"), shown))
                        \o <<Item("action", "back")>>
      [] m = "selected" -> <<Item("callback", "leaf"), Item("action", "back")>>
      [] m = "leaf" -> <<Item("none", ""), Item("action", "back")>>

\* Menu.parent: set by add_item for a submenu
parent(m) == IF m \in StaticMenus \ {"main"} THEN "main" ELSE "None"

\* MenuSystem after _build_menus: current_menu = main_menu, empty stack;
\* result is what the last call returned
InitTree == [current_menu |-> "main", selected_index |-> [m \in TreeMenus |-> 0],
             shown |-> 0, menu_stack |-> <<>>, result |-> "None"]

TreeItems(tr) == Items(tr.current_menu, tr.shown)

\* Menu.move_up / move_down: (selected_index -+ 1) % len(items)
move_up(index, n) == IF n > 0 THEN (index - 1) % n ELSE index
move_down(index, n) == IF n > 0 THEN (index + 1) % n ELSE index

\* MenuSystem.navigate_up / navigate_down
tree_navigate_up(tr) ==
    [tr EXCEPT !.selected_index[tr.current_menu] = move_up(@, Len(TreeItems(tr))),
               !.result = "None"]
tree_navigate_down(tr) ==
    [tr EXCEPT !.selected_index[tr.current_menu] = move_down(@, Len(TreeItems(tr))),
               !.result = "None"]

\* MenuSystem.navigate_back: the parent if there is one, else the top of
\* the stack if there is one
navigate_back(tr) ==
    IF parent(tr.current_menu) # "None"
    THEN [tr EXCEPT !.current_menu = parent(tr.current_menu), !.result = "None"]
    ELSE IF tr.menu_stack # <<>>
         THEN [tr EXCEPT !.current_menu = tr.menu_stack[Len(tr.menu_stack)],
                         !.menu_stack = SubSeq(tr.menu_stack, 1, Len(tr.menu_stack) - 1),
                         !.result = "None"]
         ELSE [tr EXCEPT !.result = "None"]

\* MenuSystem.select with n_trips trips in the database: a submenu or a
\* callback that builds a menu pushes current_menu and enters it, 'back'
\* navigates back, any other action is returned to the caller
select(tr, n_trips) ==
    LET item == TreeItems(tr)[tr.selected_index[tr.current_menu] + 1]
        pushed == Append(tr.menu_stack, tr.current_menu)
    IN  IF item.kind = "submenu"
        THEN [tr EXCEPT !.menu_stack = pushed, !.current_menu = item.to,
                        !.result = "None"]
        ELSE IF item.kind = "callback"
        THEN [tr EXCEPT !.menu_stack = pushed, !.current_menu = item.to,
                        !.selected_index[item.to] = 0,
                        !.shown = IF item.to = "trips" THEN n_trips ELSE @,
                        !.result = "None"]
        ELSE IF item.kind = "action" /\ item.to = "back" THEN navigate_back(tr)
        ELSE IF item.kind = "action" THEN [tr EXCEPT !.result = item.to]
        ELSE [tr EXCEPT !.result = "None"]

----------------------------------------------------------------------------
(* The GPSModule (application/gps_navigation.py) and the mock that stands  *)
(* in for it (application/tools/gps_navigation_mock.py): speed in km/h and *)
(* heading in degrees, 0 <= heading < 360, and the values of the last      *)
(* significant change.  Both classes have the same detector.               *)

Speeds == 0..MaxSpeed
Headings == {h \in 0..359 : h % HeadingStep = 0}

speed_change_threshold == 2
heading_change_threshold == 15

Abs(x) == IF x < 0 THEN -x ELSE x

\* self.speed = 0.0, self.heading = 0.0, self.prev_speed = 0.0,
\* self.prev_heading = 0.0; significant is what has_significant_change
\* returned last
InitGps ==
    [speed |-> 0, heading |-> 0, prev_speed |-> 0, prev_heading |-> 0,
     significant |-> FALSE]

\* the difference of headings that is compared with the threshold
heading_difference_Angular(h, prev) ==
    IF Abs(h - prev) <= 360 - Abs(h - prev) THEN Abs(h - prev)
    ELSE 360 - Abs(h - prev)

heading_difference(h, prev) == Abs(h - prev)

\* has_significant_change() that reports a change and keeps the reference
\* values
has_significant_change_KeepsReference(g) ==
    LET speed_change == Abs(g.speed - g.prev_speed) >= speed_change_threshold
        heading_change ==
            heading_difference(g.heading, g.prev_heading) >= heading_change_threshold
    IN  [g EXCEPT !.significant = speed_change \/ heading_change]

\* has_significant_change(): the module after the call
has_significant_change(g) ==
    LET speed_change == Abs(g.speed - g.prev_speed) >= speed_change_threshold
        heading_change ==
            heading_difference(g.heading, g.prev_heading) >= heading_change_threshold
    IN  IF speed_change \/ heading_change
        THEN [g EXCEPT !.prev_speed = g.speed, !.prev_heading = g.heading,
                       !.significant = TRUE]
        ELSE [g EXCEPT !.significant = FALSE]

----------------------------------------------------------------------------
(* The compass (application/gy511_sensor.py) as the controller uses it:    *)
(* whether it was found at start-up, the heading of its latest sample and  *)
(* the age of that sample in seconds.                                      *)

CompassHeadings == {h \in 0..359 : h % CompassStep = 0}

\* self.last_update = 0: no sample yet
NoSample == -1

\* GY511.__init__
InitCompass == [available |-> FALSE, heading |-> 0, age |-> NoSample]

\* gy511.initialize(): whether the device was detected on the bus
gy511_initialize(detected) == detected

\* gy511.get_compass_heading(): the heading of the latest sample
get_compass_heading(c) == c.heading

\* is_data_valid()
is_data_valid(c) == c.age # NoSample /\ c.age < 2

\* dict.get(key, default) of a dictionary that has the key or not
DictGet(has_key, value, default) == IF has_key THEN value ELSE default

\* _update_display: the heading it gives to render_map; get_status() returns
\* a dictionary with the key 'heading'
map_heading(g, c) ==
    LET compass_heading == IF c.available THEN get_compass_heading(c) ELSE 0
    IN  DictGet(TRUE, g.heading, IF c.available THEN compass_heading ELSE 0)

----------------------------------------------------------------------------
(* The MBTilesManager (application/mbtiles_manager.py).  readers is the    *)
(* dictionary of open MBTilesReaders in insertion order, which is the      *)
(* order of file_list; a reader is named by its position, 1..n, and stands *)
(* for its bounds.  current_file_index is 0-based as in the code.          *)

Coords == 0..MaxCoord

\* a file without 'bounds' in its metadata: self.bounds = None and the
\* center stays (0, 0)
NoBounds == [known |-> FALSE, west |-> 0, east |-> 0, south |-> 0, north |-> 0]

Boxes ==
    {NoBounds} \cup
    {[known |-> TRUE, west |-> w, east |-> e, south |-> s, north |-> n] :
        w \in Coords, e \in Coords, s \in Coords, n \in Coords}

\* bounds as _read_metadata meets them: west <= east and south <= north
Regions == {b \in Boxes : b.west <= b.east /\ b.south <= b.north}

NoReader == 0

max_open_files == 3

\* MBTilesManager.__init__ with the files of the assets folder: every file
\* is opened, the first one is current
MBTilesManager(files) ==
    [readers |-> files,
     current_reader |-> IF Len(files) > 0 THEN 1 ELSE NoReader,
     current_file_index |-> 0]

\* the readers whose connection is open
OpenReaders(m) == 1..Len(m.readers)

\* MBTilesReader.contains_coordinates
contains_coordinates(b, lat, lon) ==
    IF ~b.known THEN FALSE
    ELSE b.south <= lat /\ lat <= b.north /\ b.west <= lon /\ lon <= b.east

\* MBTilesReader.get_distance_to_center: 4 times the square of what the code
\* returns (the center is half of south + north, west + east), which orders
\* the readers as the distance does
get_distance_to_center(b, lat, lon) ==
    LET lat_diff == 2 * lat - (b.south + b.north)
        lon_diff == 2 * lon - (b.west + b.east)
    IN  lat_diff * lat_diff + lon_diff * lon_diff

\* the first reader of the dictionary among rs
FirstOf(rs) == CHOOSE r \in rs : \A q \in rs : r <= q

\* the loop over readers.items() that keeps a reader only if it is strictly
\* closer than the closest so far
Closest(m, lat, lon) ==
    LET d(r) == get_distance_to_center(m.readers[r], lat, lon)
    IN  FirstOf({r \in OpenReaders(m) : \A q \in OpenReaders(m) : d(r) <= d(q)})

\* get_reader_for_coordinates that keeps the current reader while it
\* contains the coordinates
get_reader_for_coordinates_Sticky(m, lat, lon) ==
    IF Len(m.readers) = 0 THEN [mb |-> m, reader |-> NoReader]
    ELSE IF m.current_reader # NoReader
          /\ contains_coordinates(m.readers[m.current_reader], lat, lon)
    THEN [mb |-> m, reader |-> m.current_reader]
    ELSE LET r == Closest(m, lat, lon)
         IN  [mb |-> [m EXCEPT !.current_reader = r, !.current_file_index = r - 1],
              reader |-> r]

\* get_reader_for_coordinates(lat, lon): the manager after the call and the
\* reader returned
get_reader_for_coordinates(m, lat, lon) ==
    IF Len(m.readers) = 0 THEN [mb |-> m, reader |-> NoReader]
    ELSE LET containing_readers ==
                 {r \in OpenReaders(m) : contains_coordinates(m.readers[r], lat, lon)}
             selected == IF containing_readers # {} THEN FirstOf(containing_readers)
                         ELSE Closest(m, lat, lon)
         IN  [mb |-> [m EXCEPT !.current_reader = selected,
                               !.current_file_index = selected - 1],
              reader |-> selected]

\* switch_to_next_file()
switch_to_next_file(m) ==
    IF Len(m.readers) <= 1 THEN m
    ELSE LET i == (m.current_file_index + 1) % Len(m.readers)
         IN  [m EXCEPT !.current_file_index = i, !.current_reader = i + 1]

\* switch_to_previous_file()
switch_to_previous_file(m) ==
    IF Len(m.readers) <= 1 THEN m
    ELSE LET i == (m.current_file_index - 1) % Len(m.readers)
         IN  [m EXCEPT !.current_file_index = i, !.current_reader = i + 1]

\* no call remembered
NoQuestion == [lat |-> 0, lon |-> 0, reader |-> NoReader]

----------------------------------------------------------------------------
(* The choice of a zoom level by an MBTilesReader: find_best_zoom of       *)
(* application/mbtiles_manager.py and get_best_available_zoom of           *)
(* application/mbtiles_to_png.py.  coverage[z] is the share, in percent,   *)
(* of the tiles of the frame around the position that the archive holds at *)
(* zoom level z, or NoTiles if the archive has no tile at all at z (z is   *)
(* then not among get_available_zoom_levels()).                            *)

ZoomLevels == (12 - ZoomSpan)..(12 + ZoomSpan)

Ratios == {0, 10, 100}

NoTiles == -1

NoZoom == -1

\* no archive opened, no zoom level asked for
NoArchive ==
    [coverage |-> [z \in ZoomLevels |-> NoTiles], requested |-> NoZoom,
     actual |-> [reader |-> NoZoom, converter |-> NoZoom]]

\* get_available_zoom_levels(): SELECT DISTINCT zoom_level FROM tiles
get_available_zoom_levels(coverage) == {z \in ZoomLevels : coverage[z] # NoTiles}

\* min(available_zooms, key=lambda x: abs(x - target_zoom)) on a list in
\* ascending order: the lowest of the levels at the least distance
closest_zoom(available_zooms, target_zoom) ==
    CHOOSE z \in available_zooms :
        \A y \in available_zooms :
            \/ Abs(z - target_zoom) < Abs(y - target_zoom)
            \/ Abs(z - target_zoom) = Abs(y - target_zoom) /\ z <= y

\* MBTilesReader.find_best_zoom(target_zoom); min() of an empty list raises
find_best_zoom(available_zooms, target_zoom) ==
    IF target_zoom \in available_zooms THEN target_zoom
    ELSE IF available_zooms = {} THEN NoZoom
    ELSE closest_zoom(available_zooms, target_zoom)

\* get_best_available_zoom(requested_zoom) of mbtiles_to_png.py
get_best_available_zoom(available_zooms, requested_zoom) ==
    IF available_zooms = {} THEN requested_zoom
    ELSE IF requested_zoom \in available_zooms THEN requested_zoom
    ELSE LET closest == closest_zoom(available_zooms, requested_zoom)
             higher_zooms == {z \in available_zooms : z >= 12}
         IN  IF closest < 12 /\ requested_zoom >= 12 /\ higher_zooms # {}
             THEN CHOOSE z \in higher_zooms : \A y \in higher_zooms : z <= y
             ELSE closest

----------------------------------------------------------------------------
(* The route overlay of the MapRenderer (application/gps_navigation.py).   *)
(* A waypoint is given by its tile relative to the tile of the center of   *)
(* the map: deg2num returns whole tile numbers, and _geo_to_screen places  *)
(* the waypoint 256 pixels per tile away from the middle of the screen.    *)

width == 800
height == 480
tile_pixels == 256

TileOffsets ==
    {[x |-> x, y |-> y] : x \in -MaxTileOffset..MaxTileOffset, y \in -1..1}

\* _geo_to_screen with a current reader
_geo_to_screen(point) ==
    [x |-> width \div 2 + point.x * tile_pixels,
     y |-> height \div 2 + point.y * tile_pixels]

\* the test of _draw_map_points that a waypoint is on the screen
on_screen(point) ==
    LET s == _geo_to_screen(point)
    IN  0 <= s.x /\ s.x <= width /\ 0 <= s.y /\ s.y <= height

\* the positions in map_points of the waypoints kept in screen_points, in
\* the order of map_points
RECURSIVE screen_points(_, _)
screen_points(map_points, i) ==
    IF i > Len(map_points) THEN <<>>
    ELSE (IF on_screen(map_points[i]) THEN <<i>> ELSE <<>>)
         \o screen_points(map_points, i + 1)

\* _draw_map_points: the lines drawn, each as the pair of the positions in
\* map_points of the waypoints it joins
_draw_map_points(map_points) ==
    IF Len(map_points) < 2 THEN {}
    ELSE LET kept == screen_points(map_points, 1)
         IN  {<<kept[i], kept[i + 1]>> : i \in 1..(Len(kept) - 1)}

\* self.selected_trip_map_points = None, nothing drawn
NoOverlay == [map_points |-> <<>>, lines |-> {}]

----------------------------------------------------------------------------
(* GPSModule.parse_nmea on a $GPGGA sentence and get_status                *)
(* (application/gps_navigation.py).  A field of a sentence is its text:    *)
(* empty, not a number, or the number it spells; a latitude or longitude   *)
(* spells degrees and minutes (ddmm), and the attribute holds minutes of   *)
(* arc.  parse_nmea assigns the attributes one after the other; pc counts  *)
(* the assignments made.                                                   *)

EmptyText == -1
BadText == -2

Texts(values) == {EmptyText, BadText} \cup values

\* the fields parse_nmea converts with float() or int()
NumericFields == {"lat", "lon", "quality", "sats", "alt"}

\* the texts of whole degrees: "0100", "0200", ...
Degrees == {100 * d : d \in 1..MaxDegrees}

\* lat_deg + lat_min / 60, in minutes of arc
ddmm(text) == (text \div 100) * 60 + (text % 100)

Sentences ==
    [lat : Texts(Degrees), ns : {"N", "S"},
     lon : Texts(Degrees), ew : {"E", "W"},
     quality : Texts(0..1), sats : Texts(1..MaxCount), alt : Texts(1..MaxCount)]

\* sentences of a receiver that has a position and sees MaxCount satellites
\* at altitude MaxCount
FullSentences ==
    {s \in Sentences :
        /\ \A f \in NumericFields : s[f] >= 0
        /\ s.sats = MaxCount /\ s.alt = MaxCount}

\* self.latitude = 0.0, ..., self.fix_quality = 0
InitFix ==
    [latitude |-> 0, longitude |-> 0, fix_quality |-> 0, satellites |-> 0,
     altitude |-> 0]

Done == 8

IdleParse == [pc |-> Done, sentence |-> CHOOSE s \in FullSentences : TRUE, start |-> InitFix]

\* one step of parse_nmea on a $GPGGA sentence from position pc: the
\* attributes and the position after it (Done after the last statement,
\* after the test that skips the sentence and after an exception, which
\* parse_nmea catches)
gga_step(f, s, pc) ==
    CASE pc = 0 ->
           IF s.lat = EmptyText \/ s.lon = EmptyText THEN [fix |-> f, pc |-> Done]
           ELSE IF s.lat = BadText THEN [fix |-> f, pc |-> Done]
           ELSE [fix |-> [f EXCEPT !.latitude = ddmm(s.lat)], pc |-> 1]
      [] pc = 1 ->
           [fix |-> IF s.ns = "S" THEN [f EXCEPT !.latitude = -f.latitude] ELSE f,
            pc |-> 2]
      [] pc = 2 ->
           IF s.lon = BadText THEN [fix |-> f, pc |-> Done]
           ELSE [fix |-> [f EXCEPT !.longitude = ddmm(s.lon)], pc |-> 3]
      [] pc = 3 ->
           [fix |-> IF s.ew = "W" THEN [f EXCEPT !.longitude = -f.longitude] ELSE f,
            pc |-> 4]
      [] pc = 4 ->
           IF s.quality = BadText THEN [fix |-> f, pc |-> Done]
           ELSE [fix |-> [f EXCEPT !.fix_quality =
                             IF s.quality = EmptyText THEN 0 ELSE s.quality],
                 pc |-> 5]
      [] pc = 5 ->
           IF s.sats = BadText THEN [fix |-> f, pc |-> Done]
           ELSE [fix |-> [f EXCEPT !.satellites =
                             IF s.sats = EmptyText THEN 0 ELSE s.sats],
                 pc |-> 6]
      [] pc = 6 ->
           IF s.alt = BadText THEN [fix |-> f, pc |-> Done]
           ELSE [fix |-> [f EXCEPT !.altitude =
                             IF s.alt = EmptyText THEN 0 ELSE s.alt],
                 pc |-> 7]
      [] OTHER -> [fix |-> f, pc |-> Done]

\* parse_nmea(sentence) from position pc to its end
RECURSIVE parse_from(_, _, _)
parse_from(f, s, pc) ==
    IF pc = Done THEN f
    ELSE LET r == gga_step(f, s, pc) IN parse_from(r.fix, s, r.pc)

\* parse_nmea(sentence): the attributes after the call
parse_nmea(f, s) == parse_from(f, s, 0)

\* parse_nmea(sentence) reaches self.last_update = datetime.now()
reaches_end(s) ==
    /\ s.lat >= 0 /\ s.lon >= 0
    /\ s.quality # BadText /\ s.sats # BadText /\ s.alt # BadText

\* get_status(): the position fields of the dictionary
get_status(f) ==
    [latitude |-> f.latitude, longitude |-> f.longitude,
     fix_quality |-> f.fix_quality, satellites |-> f.satellites,
     altitude |-> f.altitude]

\* the speed and the heading _calculate_speed_heading derives from two
\* positions
Derived == {[speed |-> v, heading |-> h] : v \in {0, MaxSpeed}, h \in {0, 180}}

----------------------------------------------------------------------------
(* State *)

VARIABLES
    sync_key,          \* SyncManager.sync_key
    ping_age,          \* time.time() - SyncManager.last_ping_time, in seconds
    boot,              \* where the main thread stands in __init__/run/shutdown
    show_sync_setup,   \* NavigationSystem.show_sync_setup
    sync_in_progress,  \* NavigationSystem.sync_in_progress
    active_trip,       \* NavigationSystem.active_trip (its id)
    is_connected,      \* WiFiManager.is_connected
    menu,              \* the MenuSystem
    force_update,      \* NavigationSystem.force_update
    current_zoom,      \* NavigationSystem.current_zoom
    pressed,           \* a button has set force_update during the render in flight
    trips,             \* table trips, as the connection sees it
    logbook,           \* table logbook_entries, as the connection sees it
    kv,                \* table sync_status
    durable,           \* the committed trips and logbook
    tasks,             \* the background threads
    sent,              \* whether an HTTP request has been sent since the start
    putSeen,           \* the status changes a PUT has been sent for since the start
    nextChange,        \* start/stop operations made since the start
    tree,              \* the hierarchical MenuSystem of application/menu_system.py
    gps,               \* the GPSModule
    gy511,             \* the GY511 and NavigationSystem.gy511_available
    hw,                \* the display and the GPS reader, as initialize() left them
    rendered,          \* the map the display shows
    mb,                \* the MBTilesManager
    asked,             \* an earlier call of get_reader_for_coordinates and its result
    tiles,             \* the tiles of an archive and the last choice of a zoom level
    overlay,           \* the route given to the renderer and the lines it drew
    fix,               \* GPSModule: latitude, longitude, fix_quality, satellites, altitude
    nmea,              \* the GPS reader thread in parse_nmea
    seen,              \* the last dictionary get_status() returned
    waypoints          \* the waypoints table

screenVars == <<force_update, current_zoom, pressed>>
navVars == <<boot, show_sync_setup, sync_in_progress, active_trip, is_connected, menu,
             screenVars>>
syncVars == <<sync_key, ping_age>>
telemVars == <<gps, gy511, rendered>>
mapVars == <<mb, asked>>
extraVars == <<overlay, fix, nmea, seen, waypoints>>
partVars == <<tree, telemVars, hw, mapVars, tiles, extraVars>>
storeVars == <<trips, logbook, kv, durable>>
httpVars == <<sent, putSeen>>
vars == <<navVars, syncVars, partVars, storeVars, httpVars, tasks, nextChange>>

\* self.last_ping_time = None
NoPing == -1
\* self.ping_interval = 60
ping_interval == 60
\* the ages the model tells apart: up to one and a half intervals
MaxAge == ping_interval + ping_interval \div 2
\* the time that passes from one iteration of the main loop to the next
Durations == {0, ping_interval \div 2, ping_interval, MaxAge}

\* the age of the last ping when dt more seconds have passed
Aged(age, dt) ==
    IF age = NoPing THEN NoPing
    ELSE IF age + dt > MaxAge THEN MaxAge ELSE age + dt

\* self.config.get('default_zoom', 14), and a configuration with ZoomRange
\* levels below and above it
default_zoom == 14
min_zoom == default_zoom - ZoomRange
max_zoom == default_zoom + ZoomRange

\* no PUT sent yet by a thread
NoPut == [trip |-> NoTrip, status |-> NULL]

\* a thread slot: its kind and position, the arguments of its target
\* (trip, status, chg; entry), and the locals of a synchronization: n trips
\* of the payload stored, snap the trips read by sync_pending_data and j the
\* one in turn, put the last PUT and resp the answer to the last request,
\* batch the entries being uploaded and k the one being marked, posts the
\* bulk uploads made
IdleTask == [kind |-> "none", pc |-> "idle", trip |-> NoTrip, status |-> NULL,
             chg |-> 0, entry |-> 0, n |-> 0,
             snap |-> <<>>, j |-> 0, put |-> NoPut, resp |-> 0,
             batch |-> <<>>, k |-> 0, posts |-> 0]

FreeTasks == {t \in TaskIds : tasks[t].kind = "none"}
NextFree == CHOOSE t \in FreeTasks : \A u \in FreeTasks : t <= u

\* threading.Thread(target=..., daemon=True).start()
Spawn(ts, task) == [ts EXCEPT ![NextFree] = task]

PingTask == [IdleTask EXCEPT !.kind = "ping", !.pc = "ping"]
SyncTask == [IdleTask EXCEPT !.kind = "sync", !.pc = "begin"]
TripStatusTask(id, status, chg) ==
    [IdleTask EXCEPT !.kind = "trip_status", !.pc = "put", !.trip = id,
                     !.status = status, !.chg = chg]
SingleEntryTask(entry) ==
    [IdleTask EXCEPT !.kind = "single_entry", !.pc = "query", !.entry = entry]

\* connection.commit(): everything the connection holds becomes durable
Committed(tr, lb) == [trips |-> tr, logbook |-> lb]

\* the connection is open until shutdown() has closed the database
Open == boot # "stopped"

\* the program at position at of its main thread, with key as its sync key,
\* tr its (committed) trips table and an empty logbook, no thread running and
\* the menu hidden; pulled tells whether a synchronization (ping and pull)
\* has just been completed
StartedOn(at, key, tr, pulled, files) ==
    /\ sync_key = key
    /\ ping_age = (IF at = "running" /\ pulled THEN 0 ELSE NoPing)
    /\ boot = at
    /\ show_sync_setup = (at # "buttons" /\ ~is_valid_sync_key(key))
    /\ sync_in_progress = FALSE
    /\ active_trip = (IF at = "running" THEN get_active_trip(tr) ELSE NoTrip)
    /\ is_connected = FALSE
    /\ menu = InitMenu
    /\ force_update = FALSE
    /\ current_zoom = default_zoom
    /\ pressed = FALSE
    /\ trips = tr
    /\ logbook = <<>>
    /\ kv = [last_ping |-> pulled, last_full_sync |-> pulled]
    /\ durable = Committed(tr, <<>>)
    /\ tasks = [t \in TaskIds |-> IdleTask]
    /\ sent = FALSE
    /\ putSeen = {}
    /\ nextChange = 0
    /\ tree = InitTree
    /\ gps = InitGps
    /\ gy511 = InitCompass
    /\ hw = (IF at = "running" THEN [display |-> "ready", gnss |-> "reading"]
             ELSE [display |-> "off", gnss |-> "off"])
    /\ rendered = [heading |-> 0]
    /\ mb = MBTilesManager(files)
    /\ asked = NoQuestion
    /\ tiles = NoArchive
    /\ overlay = NoOverlay
    /\ fix = InitFix
    /\ nmea = IdleParse
    /\ seen = InitFix
    /\ waypoints = <<>>

\* the same with one regional file in the assets folder
Started(at, key, tr, pulled) == StartedOn(at, key, tr, pulled, <<NoBounds>>)

\* a device on its first run, in __init__ after _setup_buttons() and before
\* _check_sync_key_status()
Init == \E key \in SyncKeys : Started("buttons", key, EmptyTrips, FALSE)

\* the button callbacks are served from _setup_buttons() until the user
\* sees the device shutting down
Alive == boot \in {"buttons", "constructed", "running", "rendering"}

----------------------------------------------------------------------------
(* The main thread: the end of __init__, initialize(), the loop of run and *)
(* shutdown()                                                              *)

\* __init__ after _setup_buttons(): the control flags (force_update =
\* False), then _check_sync_key_status()
CheckSyncKeyStatus ==
    /\ boot = "buttons"
    /\ boot' = "constructed"
    /\ show_sync_setup' = ~is_valid_sync_key(sync_key)
    /\ force_update' = FALSE
    /\ UNCHANGED <<sync_in_progress, active_trip, is_connected, menu,
                   current_zoom, pressed>>
    /\ UNCHANGED <<syncVars, partVars, storeVars, httpVars, tasks, nextChange>>

\* initialize() with a display that initializes without the compass check
initialize_CompassRequired(display_ok, gps_ok, compass_ok) ==
    display_ok /\ gps_ok /\ compass_ok

\* initialize(): what it returns, display_ok being what display.initialize()
\* returns, gps_ok what gps.start_reading() returns, compass_ok whether the
\* compass is detected
initialize(display_ok, gps_ok, compass_ok) == display_ok /\ gps_ok

\* run() up to the loop: initialize(), which stops at the first failure of
\* the display and the GPS, takes the compass as it finds it and loads the
\* active trip; run returns if initialize() returned False
InitializeStep(display_ok, gps_ok, compass_ok) ==
    LET ok == initialize(display_ok, gps_ok, compass_ok)
    IN  /\ boot = "constructed"
        /\ boot' = (IF ok THEN "running" ELSE "failed")
        /\ hw' = [display |-> IF display_ok THEN "ready" ELSE "failed",
                  gnss |-> IF ~display_ok THEN hw.gnss
                           ELSE IF gps_ok THEN "reading" ELSE "failed"]
        /\ gy511' = [gy511 EXCEPT !.available =
                        display_ok /\ gps_ok /\ gy511_initialize(compass_ok)]
        /\ active_trip' = (IF display_ok /\ gps_ok THEN get_active_trip(trips)
                           ELSE active_trip)
        /\ UNCHANGED <<show_sync_setup, sync_in_progress, is_connected, menu,
                       screenVars>>
        /\ UNCHANGED <<syncVars, tree, gps, rendered, mapVars, tiles, extraVars, storeVars, httpVars, tasks,
                       nextChange>>

\* run(): initialize() fails (display or GPS) and run returns
InitializeFails ==
    \E display_ok, gps_ok, compass_ok \in BOOLEAN :
        /\ ~initialize(display_ok, gps_ok, compass_ok)
        /\ InitializeStep(display_ok, gps_ok, compass_ok)

\* run(): initialize() succeeds and loads the active trip
Initialize ==
    \E display_ok, gps_ok, compass_ok \in BOOLEAN :
        /\ initialize(display_ok, gps_ok, compass_ok)
        /\ InitializeStep(display_ok, gps_ok, compass_ok)

\* should_ping with > for >=
should_ping_After(age) == IF age = NoPing THEN TRUE ELSE age > ping_interval

\* should_ping(): True without an earlier ping, else whether ping_interval
\* seconds have passed since it
should_ping(age) == IF age = NoPing THEN TRUE ELSE age >= ping_interval

\* _update_display() up to the logbook entry: what it does to the logbook
\* and the threads when the GPS has a fix and has_significant_change()
\* fires (change), with Wi-Fi status wifi; nothing behind the sync setup
\* screen or the menu, nor without an active trip
LogbookStep(ts, change, wifi) ==
    IF show_sync_setup \/ is_visible(menu) \/ ~change \/ active_trip = NoTrip
    THEN [logbook |-> logbook, tasks |-> ts, ok |-> TRUE]
    ELSE LET lb == add_logbook_entry(logbook, active_trip)
             upload == wifi /\ is_enabled(sync_key) /\ is_valid_sync_key(sync_key)
         IN  [logbook |-> lb,
              tasks |-> IF upload /\ \E t \in TaskIds : ts[t].kind = "none"
                        THEN [ts EXCEPT ![CHOOSE t \in TaskIds : ts[t].kind = "none"
                                   /\ \A u \in TaskIds : ts[u].kind = "none" => t <= u]
                                   = SingleEntryTask(Len(lb))]
                        ELSE ts,
              ok |-> Len(logbook) < MaxEntries
                     /\ (upload => \E t \in TaskIds : ts[t].kind = "none")]

\* one iteration of the loop of run(), dt seconds after the one before:
\* wifi is what check_wifi_status() finds, due whether update_interval has
\* passed since the last update, change whether _update_display finds a fix
\* and a significant change.  The iteration spawns the ping thread and, if
\* the display is due or force_update is set, calls _update_display, which
\* records the logbook entry first.  With whole the iteration is taken up
\* to the end (force_update = False), otherwise up to the render
Iteration(wifi, dt, due, change, whole) ==
    /\ boot = "running"
    /\ is_connected' = wifi
    /\ ping_age' = Aged(ping_age, dt)
    /\ LET ping == wifi /\ should_ping(ping_age') /\ is_valid_sync_key(sync_key)
           update == due \/ force_update
           ts == IF ping THEN Spawn(tasks, PingTask) ELSE tasks
           step == IF update THEN LogbookStep(ts, change, wifi)
                   ELSE [logbook |-> logbook, tasks |-> ts, ok |-> TRUE]
       IN  /\ ping => FreeTasks # {}
           /\ step.ok
           /\ tasks' = step.tasks
           /\ logbook' = step.logbook
           /\ durable' = IF step.logbook # logbook
                         THEN Committed(trips, step.logbook) ELSE durable
           /\ IF update /\ ~whole
              THEN boot' = "rendering" /\ force_update' = force_update
              ELSE boot' = "running" /\ force_update' = FALSE
    /\ pressed' = FALSE
    /\ UNCHANGED <<show_sync_setup, sync_in_progress, active_trip, menu, current_zoom>>
    /\ UNCHANGED <<sync_key, partVars, trips, kv, httpVars, nextChange>>

\* an iteration during whose render no button is pressed
Tick(wifi, dt, due, change) == Iteration(wifi, dt, due, change, TRUE)

\* an iteration up to the render of _update_display
TickStart(wifi, dt, due, change) == Iteration(wifi, dt, due, change, FALSE)

\* _update_display returns; last_update = current_time; force_update = False
RenderDone ==
    /\ boot = "rendering"
    /\ boot' = "running"
    /\ force_update' = FALSE
    /\ pressed' = FALSE
    /\ UNCHANGED <<show_sync_setup, sync_in_progress, active_trip, is_connected, menu,
                   current_zoom>>
    /\ UNCHANGED <<syncVars, partVars, storeVars, httpVars, tasks, nextChange>>

MainLoop ==
    \/ \E wifi, due, change \in BOOLEAN : \E dt \in Durations :
         TickStart(wifi, dt, due, change)
    \/ RenderDone

\* the loop is left (KeyboardInterrupt or an error) and shutdown() begins:
\* running = False, the configuration is saved, GPS, renderer, map files
\* and display are closed
ShutdownBegin ==
    /\ boot \in {"running", "rendering"}
    /\ boot' = "stopping"
    /\ UNCHANGED <<show_sync_setup, sync_in_progress, active_trip, is_connected, menu,
                   screenVars>>
    /\ UNCHANGED <<syncVars, partVars, storeVars, httpVars, tasks, nextChange>>

\* shutdown(): self.db.close().  The connection is closed and set to None;
\* statements that were not committed are lost with it
ShutdownClose ==
    /\ boot = "stopping"
    /\ boot' = "stopped"
    /\ trips' = durable.trips
    /\ logbook' = durable.logbook
    /\ UNCHANGED <<show_sync_setup, sync_in_progress, active_trip, is_connected, menu,
                   screenVars>>
    /\ UNCHANGED <<syncVars, partVars, kv, durable, httpVars, tasks, nextChange>>

----------------------------------------------------------------------------
(* The button callbacks (gpiozero calls them on its own thread as soon as  *)
(* _setup_buttons has run)                                                 *)

\* self.force_update = True, set by a button callback
Press ==
    /\ force_update' = TRUE
    /\ pressed' = (pressed \/ boot = "rendering")

\* the callback in sync setup mode taking a key that is set for a valid one
ButtonInSyncSetup_Enabled ==
    /\ Alive
    /\ show_sync_setup
    /\ show_sync_setup' = ~is_enabled(sync_key)
    /\ Press
    /\ UNCHANGED <<boot, sync_in_progress, active_trip, is_connected, menu, current_zoom>>
    /\ UNCHANGED <<syncVars, partVars, storeVars, httpVars, tasks, nextChange>>

\* in sync setup mode every button re-evaluates the key, asks for an update
\* of the display and returns
ButtonInSyncSetup ==
    /\ Alive
    /\ show_sync_setup
    /\ show_sync_setup' = ~is_valid_sync_key(sync_key)
    /\ Press
    /\ UNCHANGED <<boot, sync_in_progress, active_trip, is_connected, menu, current_zoom>>
    /\ UNCHANGED <<syncVars, partVars, storeVars, httpVars, tasks, nextChange>>

\* _button1_pressed / _button2_pressed with the menu visible
ButtonNavigate ==
    /\ Alive
    /\ ~show_sync_setup
    /\ is_visible(menu)
    /\ \E m \in {navigate_up(menu), navigate_down(menu)} : menu' = m
    /\ Press
    /\ UNCHANGED <<boot, show_sync_setup, sync_in_progress, active_trip, is_connected,
                   current_zoom>>
    /\ UNCHANGED <<syncVars, partVars, storeVars, httpVars, tasks, nextChange>>

\* zoom in without the test against max_zoom
zoom_in_NoLimit(z) == z + 1

\* _button1_pressed on the map: if self.current_zoom < self.max_zoom:
\* self.current_zoom += 1
zoom_in(z) == IF z < max_zoom THEN z + 1 ELSE z

\* _button2_pressed on the map: if self.current_zoom > self.min_zoom:
\* self.current_zoom -= 1
zoom_out(z) == IF z > min_zoom THEN z - 1 ELSE z

\* _button1_pressed / _button2_pressed on the map: zoom in below max_zoom,
\* zoom out above min_zoom
ButtonZoom ==
    /\ Alive
    /\ ~show_sync_setup
    /\ ~is_visible(menu)
    /\ \E z \in {zoom_in(current_zoom), zoom_out(current_zoom)} :
         IF z # current_zoom
         THEN current_zoom' = z /\ Press
         ELSE UNCHANGED <<current_zoom, force_update, pressed>>
    /\ UNCHANGED <<boot, show_sync_setup, sync_in_progress, active_trip, is_connected,
                   menu>>
    /\ UNCHANGED <<syncVars, partVars, storeVars, httpVars, tasks, nextChange>>

\* 'start_trip': set_active_trip(id), update_trip_status(id, 'IN_ROUTE');
\* c numbers the operation
StartTrip(tr, id, c) ==
    [update_trip_status(set_active_trip(tr, id), id, "IN_ROUTE") EXCEPT ![id].chg = c]

\* 'stop_trip': update_trip_status(id, 'COMPLETED'), set_active_trip(None)
StopTrip(tr, id, c) ==
    [set_active_trip(update_trip_status(tr, id, "COMPLETED"), NoTrip) EXCEPT ![id].chg = c]

\* _handle_menu_action(action) after the menu call left menu m; every
\* action it knows sets force_update
HandleMenuAction(m, action) ==
    /\ IF \/ action \in {"back_to_map", "back_to_list"}
          \/ action \in {"trip_selected", "start_trip", "stop_trip"}
             /\ m.selected_trip # NoneTrip
       THEN Press
       ELSE UNCHANGED <<force_update, pressed>>
    /\ IF action = "start_trip" /\ m.selected_trip # NoneTrip
       THEN LET id == m.selected_trip.id
            IN  /\ nextChange < MaxChanges
                /\ nextChange' = nextChange + 1
                /\ trips' = StartTrip(trips, id, nextChange + 1)
                /\ durable' = Committed(trips', logbook)
                /\ active_trip' = id
                /\ menu' = hide_menu(m)
                /\ IF is_connected
                   THEN /\ FreeTasks # {}
                        /\ tasks' = Spawn(tasks, TripStatusTask(id, "IN_ROUTE", nextChange + 1))
                   ELSE tasks' = tasks
       ELSE IF action = "stop_trip" /\ m.selected_trip # NoneTrip
       THEN LET id == m.selected_trip.id
            IN  /\ nextChange < MaxChanges
                /\ nextChange' = nextChange + 1
                /\ trips' = StopTrip(trips, id, nextChange + 1)
                /\ durable' = Committed(trips', logbook)
                /\ active_trip' = NoTrip
                /\ menu' = hide_menu(m)
                /\ IF is_connected
                   THEN /\ FreeTasks # {}
                        /\ tasks' = Spawn(tasks, TripStatusTask(id, "COMPLETED", nextChange + 1))
                   ELSE tasks' = tasks
       ELSE /\ menu' = m
            /\ UNCHANGED <<trips, durable, active_trip, tasks, nextChange>>

\* _button3_pressed with the menu visible: select_current, then the action
ButtonSelect ==
    /\ Alive
    /\ ~show_sync_setup
    /\ is_visible(menu)
    /\ LET r == select_current(menu, trips) IN HandleMenuAction(r.menu, r.action)
    /\ UNCHANGED <<boot, show_sync_setup, sync_in_progress, is_connected, current_zoom>>
    /\ UNCHANGED <<syncVars, partVars, logbook, kv, httpVars>>

\* _button4_pressed with the menu visible: go_back, then the action
ButtonBack ==
    /\ Alive
    /\ ~show_sync_setup
    /\ is_visible(menu)
    /\ LET r == go_back(menu, trips) IN HandleMenuAction(r.menu, r.action)
    /\ UNCHANGED <<boot, show_sync_setup, sync_in_progress, is_connected, current_zoom>>
    /\ UNCHANGED <<syncVars, partVars, logbook, kv, httpVars>>

\* _button4_pressed on the map: toggle_menu
ButtonMenu ==
    /\ Alive
    /\ ~show_sync_setup
    /\ ~is_visible(menu)
    /\ menu' = toggle_menu(menu, trips)
    /\ Press
    /\ UNCHANGED <<boot, show_sync_setup, sync_in_progress, active_trip, is_connected,
                   current_zoom>>
    /\ UNCHANGED <<syncVars, partVars, storeVars, httpVars, tasks, nextChange>>

\* _button3_pressed on the map: start a synchronization thread when Wi-Fi is
\* up (wifi: what check_wifi_status() finds), a key is set and no
\* synchronization is flagged in progress
ButtonSync ==
    /\ Alive
    /\ ~show_sync_setup
    /\ ~is_visible(menu)
    /\ \E wifi \in BOOLEAN :
         /\ is_connected' = wifi
         /\ IF wifi /\ is_enabled(sync_key) /\ ~sync_in_progress
            THEN /\ FreeTasks # {}
                 /\ tasks' = Spawn(tasks, SyncTask)
            ELSE tasks' = tasks
    /\ UNCHANGED <<boot, show_sync_setup, sync_in_progress, active_trip,
                   menu, screenVars>>
    /\ UNCHANGED <<syncVars, partVars, storeVars, httpVars, nextChange>>

----------------------------------------------------------------------------
(* The SyncManager's requests, as steps of the thread t that makes them    *)

Goto(t, pc) == [tasks EXCEPT ![t].pc = pc]

\* where a thread continues after ping_device
AfterPing(ts, t) ==
    IF ts[t].kind = "ping" THEN [ts EXCEPT ![t] = IdleTask]
    ELSE [ts EXCEPT ![t].pc = "pull", ![t].resp = 0]

\* whether ping_device takes the answer for a success
PingSucceeded(resp) == resp = 200

\* ping_device(gps_status): POST .../ping; on 200 last_ping_time =
\* time.time() and the 'last_ping' row of sync_status (a commit; on a
\* closed database set_sync_status logs the error and writes nothing).
\* With whole the step runs on to where the thread continues, otherwise up
\* to the return of ping_device
Ping(t, whole) ==
    /\ tasks[t].pc = "ping"
    /\ \E resp \in IF Truthy(sync_key) THEN Responses ELSE {0} :
         LET answered == [tasks EXCEPT ![t].pc = "pinged", ![t].resp = resp]
         IN  /\ sent' = (sent \/ Truthy(sync_key))
             /\ tasks' = IF whole THEN AfterPing(answered, t) ELSE answered
             /\ IF Truthy(sync_key) /\ PingSucceeded(resp)
                THEN /\ ping_age' = 0
                     /\ kv' = IF Open THEN [kv EXCEPT !.last_ping = TRUE] ELSE kv
                     /\ durable' = IF Open THEN Committed(trips, logbook) ELSE durable
                ELSE UNCHANGED <<ping_age, kv, durable>>
    /\ UNCHANGED <<navVars, sync_key, partVars, trips, logbook, putSeen, nextChange>>

\* ping_device and the logging of its outcome
PingDevice(t) == Ping(t, TRUE)

\* ping_device up to its return
PingRequest(t) == Ping(t, FALSE)

\* ping_device has returned: the outcome is logged; _ping_device ends,
\* _perform_sync goes on with the pull
PingDone(t) ==
    /\ tasks[t].pc = "pinged"
    /\ tasks' = AfterPing(tasks, t)
    /\ UNCHANGED <<navVars, syncVars, partVars, storeVars, httpVars, nextChange>>

\* _perform_sync starts: sync_in_progress = True
PerformSyncBegin(t) ==
    /\ tasks[t].pc = "begin"
    /\ sync_in_progress' = TRUE
    /\ tasks' = Goto(t, "ping")
    /\ UNCHANGED <<boot, show_sync_setup, active_trip, is_connected, menu, screenVars>>
    /\ UNCHANGED <<syncVars, partVars, storeVars, httpVars, nextChange>>

\* sync_device_data(): GET .../device/{key}; on 200 the payload goes to
\* store_device_sync_data (which fails at once on a closed database)
SyncDeviceData(t) ==
    /\ tasks[t].pc = "pull"
    /\ IF ~Truthy(sync_key)
       THEN /\ tasks' = Goto(t, "drain")
            /\ sent' = sent
       ELSE \E resp \in Responses :
              /\ sent' = TRUE
              /\ tasks' = Goto(t, IF resp = 200 /\ Open THEN "store" ELSE "drain")
    /\ UNCHANGED <<navVars, syncVars, partVars, storeVars, putSeen, nextChange>>

\* one trip of the payload in store_device_sync_data: SELECT, then UPDATE of
\* the existing row or INSERT of a new one (local_status NULL, sync_status
\* 'pending'), not committed yet
UpsertTrip(tr, t, id, status) ==
    IF Exists(tr, id)
    THEN [tr EXCEPT ![id].status = status, ![id].origin = t]
    ELSE [tr EXCEPT ![id] = [NoRow EXCEPT !.rowid = RowCount(tr) + 1,
                                         !.status = status,
                                         !.sync_status = PENDING,
                                         !.origin = t]]

\* the rows a call of store_device_sync_data made by t has written, marked o
Settle(tr, t, o) ==
    [id \in TripIds |-> IF tr[id].origin = t THEN [tr[id] EXCEPT !.origin = o]
                        ELSE tr[id]]

\* the answers of GET .../device/{key}: up to MaxPayload trips with their
\* status and their waypoints, which are told apart by their place in the
\* list
Payloads ==
    UNION {[1..n -> [id : TripIds, status : RemoteStatuses, waypoints : 0..MaxPoints]] :
             n \in 0..MaxPayload}

\* the loop over the waypoints of a trip: INSERT OR REPLACE INTO waypoints
\* (trip_id, name, latitude, longitude, order_index), the row id assigned by
\* AUTOINCREMENT
StoreWaypoints(wp, id, n) ==
    wp \o [i \in 1..n |-> [trip_id |-> id, order_index |-> i - 1]]

\* store_device_sync_data(sync_data) by a caller other than a thread of the
\* model, from the first trip to the commit: the trips and waypoints tables
\* after it
RECURSIVE store_device_sync_data(_, _)
store_device_sync_data(s, payload) ==
    IF payload = <<>>
    THEN [trips |-> Settle(s.trips, MaxTasks + 1, 0), waypoints |-> s.waypoints]
    ELSE LET trip == Head(payload)
         IN  store_device_sync_data(
                 [trips |-> UpsertTrip(s.trips, MaxTasks + 1, trip.id, trip.status),
                  waypoints |-> StoreWaypoints(s.waypoints, trip.id, trip.waypoints)],
                 Tail(payload))

\* store_device_sync_data reaches the next trip of the payload and stores it
StoreTrip(t) ==
    /\ tasks[t].pc = "store"
    /\ Open
    /\ tasks[t].n < MaxPayload
    /\ \E id \in TripIds, status \in RemoteStatuses :
         trips' = UpsertTrip(trips, t, id, status)
    /\ tasks' = [tasks EXCEPT ![t].n = @ + 1]
    /\ UNCHANGED <<navVars, syncVars, partVars, logbook, kv, durable, httpVars, nextChange>>

\* store_device_sync_data reaches a trip it cannot store (no 'id': KeyError;
\* no title: NOT NULL constraint) or finds the database closed: the except
\* clause logs and returns False, without a rollback
StoreTripFails(t) ==
    /\ tasks[t].pc = "store"
    /\ tasks[t].n < MaxPayload \/ ~Open
    /\ tasks' = [tasks EXCEPT ![t].pc = "drain", ![t].n = 0]
    /\ trips' = Settle(trips, t, Abandoned)
    /\ UNCHANGED <<navVars, syncVars, partVars, logbook, kv, durable, httpVars, nextChange>>

\* store_device_sync_data reaches the end of the payload: commit; then
\* sync_device_data records last_full_sync and _perform_sync reloads the
\* active trip
StoreCommit(t) ==
    /\ tasks[t].pc = "store"
    /\ Open
    /\ tasks' = [tasks EXCEPT ![t].pc = "drain", ![t].n = 0]
    /\ trips' = Settle(trips, t, 0)
    /\ durable' = Committed(trips', logbook)
    /\ kv' = [kv EXCEPT !.last_full_sync = TRUE]
    /\ active_trip' = get_active_trip(trips)
    /\ UNCHANGED <<boot, show_sync_setup, sync_in_progress, is_connected, menu, screenVars>>
    /\ UNCHANGED <<syncVars, partVars, logbook, httpVars, nextChange>>

----------------------------------------------------------------------------
(* sync_pending_data *)

\* a trip of get_trips_needing_sync() as sync_pending_data reads it
PendingTrip(tr, id) ==
    [id |-> id, status |-> tr[id].local_status, chg |-> tr[id].chg]

\* trips_needing_sync = self.db.get_trips_needing_sync() (an empty list from
\* a closed database)
DrainQuery(t) ==
    /\ tasks[t].pc = "drain"
    /\ LET ids == IF Open THEN get_trips_needing_sync(trips) ELSE <<>>
       IN  tasks' = [tasks EXCEPT ![t].pc = "push", ![t].j = 1,
                       ![t].snap = [i \in 1..Len(ids) |-> PendingTrip(trips, ids[i])]]
    /\ UNCHANGED <<navVars, syncVars, partVars, storeVars, httpVars, nextChange>>

\* a PUT that takes every 2xx answer for a success
PutSucceeded_Any2xx(resp) == resp \in {200, 201}

\* whether update_trip_status (the PUT) reports success
PutSucceeded(resp) == resp = 200

\* a loop that ends at the first push that fails
AfterPush_StopAtFailure(task, resp) ==
    IF resp = 200 THEN [task EXCEPT !.pc = "mark_trip", !.resp = resp]
    ELSE [task EXCEPT !.pc = "finish", !.resp = resp]

\* where sync_pending_data goes after the push of snap[j] was answered resp
AfterPush(task, resp) ==
    IF PutSucceeded(resp) THEN [task EXCEPT !.pc = "mark_trip", !.resp = resp]
    ELSE [task EXCEPT !.j = @ + 1, !.resp = resp]

\* the status sync_pending_data sends for a trip it read
PushedStatus(e) == e.status

\* the loop body of sync_pending_data: update_trip_status(trip['id'], status)
DrainPush(t) ==
    /\ tasks[t].pc = "push"
    /\ tasks[t].j <= Len(tasks[t].snap)
    /\ LET e == tasks[t].snap[tasks[t].j]
       IN  IF ~Truthy(sync_key)
           THEN /\ tasks' = [tasks EXCEPT ![t] = AfterPush(tasks[t], 0)]
                /\ UNCHANGED <<sent, putSeen>>
           ELSE \E resp \in Responses :
                  /\ sent' = TRUE
                  /\ putSeen' = putSeen \cup {e.chg}
                  /\ tasks' = [tasks EXCEPT ![t] =
                         AfterPush([tasks[t] EXCEPT !.put = [trip |-> e.id,
                                                 status |-> PushedStatus(e)]], resp)]
    /\ UNCHANGED <<navVars, syncVars, partVars, storeVars, nextChange>>

\* self.db.mark_trip_synced(trip['id']) after a successful push (on a
\* closed database it logs the error and writes nothing)
DrainMark(t) ==
    /\ tasks[t].pc = "mark_trip"
    /\ trips' = IF Open THEN mark_trip_synced(trips, tasks[t].snap[tasks[t].j].id)
                ELSE trips
    /\ durable' = IF Open THEN Committed(trips', logbook) ELSE durable
    /\ tasks' = [tasks EXCEPT ![t].pc = "push", ![t].j = @ + 1]
    /\ UNCHANGED <<navVars, syncVars, partVars, logbook, kv, httpVars, nextChange>>

\* unsynced_entries = self.db.get_unsynced_logbook_entries(), after the loop
DrainLogbookQuery(t) ==
    /\ tasks[t].pc = "push"
    /\ tasks[t].j > Len(tasks[t].snap)
    /\ \E unsynced \in IF Open THEN get_unsynced_logbook_entries(logbook) ELSE {<<>>} :
           tasks' = [tasks EXCEPT ![t] =
                       [IdleTask EXCEPT !.kind = "sync",
                                        !.pc = IF unsynced = <<>> THEN "finish"
                                               ELSE "upload",
                                        !.batch = unsynced]]
    /\ UNCHANGED <<navVars, syncVars, partVars, storeVars, httpVars, nextChange>>

\* an upload that takes every answer of the server for a success
UploadSucceeded_Answered(resp) == resp # 0

\* whether sync_logbook_entries (the bulk POST) reports success
UploadSucceeded(resp) == resp \in {200, 201}

\* where a thread continues when its upload is over
AfterUpload(t) ==
    IF tasks[t].kind = "sync"
    THEN [tasks EXCEPT ![t] = [IdleTask EXCEPT !.kind = "sync", !.pc = "finish",
                                               !.posts = tasks[t].posts]]
    ELSE [tasks EXCEPT ![t] = IdleTask]

\* sync_logbook_entries(entries): POST .../bulk with the whole batch
UploadEntries(t) ==
    /\ tasks[t].pc = "upload"
    /\ IF ~Truthy(sync_key)
       THEN /\ tasks' = AfterUpload(t)
            /\ sent' = sent
       ELSE \E resp \in Responses :
              /\ sent' = TRUE
              /\ LET posted == [tasks EXCEPT ![t].posts = @ + 1, ![t].resp = resp]
                 IN  tasks' = IF UploadSucceeded(resp)
                              THEN [posted EXCEPT ![t].pc = "mark_entries", ![t].k = 1]
                              ELSE [posted EXCEPT ![t].pc = "upload_failed"]
    /\ UNCHANGED <<navVars, syncVars, partVars, storeVars, putSeen, nextChange>>

\* a failed upload is reported and the thread goes on
UploadFailed(t) ==
    /\ tasks[t].pc = "upload_failed"
    /\ tasks' = AfterUpload(t)
    /\ UNCHANGED <<navVars, syncVars, partVars, storeVars, httpVars, nextChange>>

\* mark_logbook_entries_synced: the UPDATE of one entry of the batch
MarkEntryStep(t) ==
    /\ tasks[t].pc = "mark_entries"
    /\ Open
    /\ tasks[t].k <= Len(tasks[t].batch)
    /\ logbook' = MarkEntry(logbook, tasks[t].batch[tasks[t].k])
    /\ tasks' = [tasks EXCEPT ![t].k = @ + 1]
    /\ UNCHANGED <<navVars, syncVars, partVars, trips, kv, durable, httpVars, nextChange>>

\* mark_logbook_entries_synced: the commit after the loop; on a closed
\* database the next statement fails and the method returns
MarkEntriesCommit(t) ==
    /\ tasks[t].pc = "mark_entries"
    /\ tasks[t].k > Len(tasks[t].batch) \/ ~Open
    /\ durable' = IF Open THEN Committed(trips, logbook) ELSE durable
    /\ tasks' = AfterUpload(t)
    /\ UNCHANGED <<navVars, syncVars, partVars, trips, logbook, kv, httpVars, nextChange>>

\* _perform_sync ends: sync_in_progress = False
PerformSyncEnd(t) ==
    /\ tasks[t].pc = "finish"
    /\ sync_in_progress' = FALSE
    /\ tasks' = [tasks EXCEPT ![t] = IdleTask]
    /\ UNCHANGED <<boot, show_sync_setup, active_trip, is_connected, menu, screenVars>>
    /\ UNCHANGED <<syncVars, partVars, storeVars, httpVars, nextChange>>

----------------------------------------------------------------------------
(* _sync_trip_status(trip_id, status) and _sync_single_logbook_entry(id) *)

\* self.sync_manager.update_trip_status(trip_id, status)
TripStatusPut(t) ==
    /\ tasks[t].pc = "put"
    /\ IF ~Truthy(sync_key)
       THEN /\ tasks' = [tasks EXCEPT ![t] = IdleTask]
            /\ UNCHANGED <<sent, putSeen>>
       ELSE \E resp \in Responses :
              /\ sent' = TRUE
              /\ putSeen' = putSeen \cup {tasks[t].chg}
              /\ tasks' = IF PutSucceeded(resp) THEN Goto(t, "mark")
                          ELSE [tasks EXCEPT ![t] = IdleTask]
    /\ UNCHANGED <<navVars, syncVars, partVars, storeVars, nextChange>>

\* self.db.mark_trip_synced(trip_id)
TripStatusMark(t) ==
    /\ tasks[t].pc = "mark"
    /\ trips' = IF Open THEN mark_trip_synced(trips, tasks[t].trip) ELSE trips
    /\ durable' = IF Open THEN Committed(trips', logbook) ELSE durable
    /\ tasks' = [tasks EXCEPT ![t] = IdleTask]
    /\ UNCHANGED <<navVars, syncVars, partVars, logbook, kv, httpVars, nextChange>>

\* entries = get_unsynced_logbook_entries(); entry_to_sync = the one with
\* this id, if it is still pending
SingleEntryQuery(t) ==
    /\ tasks[t].pc = "query"
    /\ \E entries \in IF Open THEN get_unsynced_logbook_entries(logbook) ELSE {<<>>} :
         tasks' = IF tasks[t].entry \in Range(entries)
                  THEN [tasks EXCEPT ![t].pc = "upload", ![t].batch = <<tasks[t].entry>>]
                  ELSE [tasks EXCEPT ![t] = IdleTask]
    /\ UNCHANGED <<navVars, syncVars, partVars, storeVars, httpVars, nextChange>>

----------------------------------------------------------------------------
(* The program *)

MainThread ==
    \/ CheckSyncKeyStatus
    \/ InitializeFails
    \/ Initialize
    \/ MainLoop
    \/ ShutdownBegin
    \/ ShutdownClose

Buttons ==
    \/ ButtonInSyncSetup
    \/ ButtonNavigate
    \/ ButtonZoom
    \/ ButtonSelect
    \/ ButtonBack
    \/ ButtonMenu
    \/ ButtonSync

Thread(t) ==
    \/ PingRequest(t)
    \/ PingDone(t)
    \/ PerformSyncBegin(t)
    \/ SyncDeviceData(t)
    \/ StoreTrip(t)
    \/ StoreTripFails(t)
    \/ StoreCommit(t)
    \/ DrainQuery(t)
    \/ DrainPush(t)
    \/ DrainMark(t)
    \/ DrainLogbookQuery(t)
    \/ UploadEntries(t)
    \/ UploadFailed(t)
    \/ MarkEntryStep(t)
    \/ MarkEntriesCommit(t)
    \/ PerformSyncEnd(t)
    \/ TripStatusPut(t)
    \/ TripStatusMark(t)
    \/ SingleEntryQuery(t)

\* the daemon threads run for as long as the process does
Threads == boot # "failed" /\ \E t \in TaskIds : Thread(t)

Next == MainThread \/ Buttons \/ Threads

Spec == Init /\ [][Next]_vars

----------------------------------------------------------------------------
(* Scenarios: the program started in a given state, with the events of one *)
(* use of the device.  Each is the program above with fewer events.        *)

ValidKey == Key("ELCANO-KEY-0001")

\* the trips table after store_device_sync_data has stored the trips ids
\* (in this order) as not started
RECURSIVE Pulled(_)
Pulled(ids) ==
    IF ids = <<>> THEN EmptyTrips
    ELSE Settle(UpsertTrip(Pulled(Tail(ids)), 1, Head(ids), "NOT_STARTED"), 1, 0)

\* the orders in which a payload can list all trips
Orders == {o \in [TripIds -> TripIds] : \A a, b \in TripIds : o[a] = o[b] => a = b}

\* _perform_sync without trips in the pulled payload
SyncNoTrips(t) ==
    \/ PingDevice(t)
    \/ PerformSyncBegin(t)
    \/ SyncDeviceData(t)
    \/ StoreCommit(t)
    \/ DrainQuery(t)
    \/ DrainLogbookQuery(t)
    \/ PerformSyncEnd(t)

(* A device whose key is missing or invalid is switched on; the user       *)
(* presses buttons on the map.                                             *)
InitBoot ==
    \E key \in SyncKeys :
      /\ ~is_valid_sync_key(key)
      /\ Started("buttons", key, EmptyTrips, FALSE)

NextBoot ==
    \/ MainThread
    \/ ButtonInSyncSetup
    \/ ButtonSync
    \/ Alive /\ \E t \in TaskIds : SyncNoTrips(t)

SpecBoot == InitBoot /\ [][NextBoot]_vars

(* A device that has pulled its trips; the user starts and stops trips     *)
(* from the menu and presses Center on the map, Wi-Fi comes and goes.      *)
\* (trip ids are interchangeable: the payload that lists them in ascending
\* order stands for every order)
InitTrips == Started("running", ValidKey, Pulled([i \in TripIds |-> i]), TRUE)

WifiTick == \E wifi \in BOOLEAN : Tick(wifi, 0, FALSE, FALSE)

NextTrips ==
    \/ WifiTick
    \/ ButtonNavigate
    \/ ButtonSelect
    \/ ButtonBack
    \/ ButtonMenu
    \/ ButtonSync
    \/ \E t \in TaskIds : SyncNoTrips(t) \/ DrainPush(t) \/ DrainMark(t)
                           \/ TripStatusPut(t) \/ TripStatusMark(t)

SpecTrips == InitTrips /\ [][NextTrips]_vars

(* A device that comes back online after one trip was started and stopped *)
(* and another started while offline; the main loop logs positions and the *)
(* user presses Center on the map.                                         *)
InitDrain ==
    \E o \in Orders : \E a, b \in TripIds :
      /\ a # b
      /\ Started("running", ValidKey,
                 StartTrip(StopTrip(StartTrip(Pulled(o), a, 0), a, 0), b, 0), TRUE)

LogTick == \E wifi, log \in BOOLEAN : Tick(wifi, 0, log, log)

NextDrain ==
    \/ LogTick
    \/ ButtonSync
    \/ \E t \in TaskIds : SyncNoTrips(t) \/ DrainPush(t) \/ DrainMark(t)
                           \/ UploadEntries(t) \/ UploadFailed(t)
                           \/ MarkEntryStep(t) \/ MarkEntriesCommit(t)
                           \/ SingleEntryQuery(t)

SpecDrain == InitDrain /\ [][NextDrain]_vars

(* A device with a valid key that has synchronized when the server had no  *)
(* trips for it is online; the user presses Center on the map and the      *)
(* server sends trips.                                                     *)
InitStore == Started("running", ValidKey, EmptyTrips, TRUE)

PingTick == \E wifi \in BOOLEAN : Tick(wifi, MaxAge, FALSE, FALSE)

NextStore ==
    \/ PingTick
    \/ ButtonSync
    \/ \E t \in TaskIds : SyncNoTrips(t) \/ StoreTrip(t) \/ StoreTripFails(t)

SpecStore == InitStore /\ [][NextStore]_vars

(* A device on which a trip was started while offline; the user presses    *)
(* Center on the map and the program is stopped (Ctrl-C) while threads are *)
(* running.                                                                *)
InitShutdown ==
    Started("running", ValidKey, StartTrip(Pulled([i \in TripIds |-> i]), 1, 0), TRUE)

NextShutdown ==
    \/ ButtonSync
    \/ ShutdownBegin
    \/ ShutdownClose
    \/ \E t \in TaskIds : SyncNoTrips(t) \/ StoreTripFails(t)
                           \/ DrainPush(t) \/ DrainMark(t)

SpecShutdown == InitShutdown /\ [][NextShutdown]_vars

(* A device on the map with its trips pulled and Wi-Fi down; the user      *)
(* presses buttons while the main loop renders the display.                *)
InitScreen == Started("running", ValidKey, Pulled([i \in TripIds |-> i]), TRUE)

RenderTick == \E due \in BOOLEAN : TickStart(FALSE, 0, due, FALSE)

NextScreen ==
    \/ RenderTick
    \/ RenderDone
    \/ ButtonNavigate
    \/ ButtonZoom
    \/ ButtonSelect
    \/ ButtonBack
    \/ ButtonMenu

SpecScreen == InitScreen /\ [][NextScreen]_vars

(* A client of the Store alone: it activates and clears trips, some of     *)
(* which the table does not hold, inserts logbook entries with timestamps  *)
(* of its own and marks entries synced.  Every call commits.  active_trip  *)
(* is the client's record of the existing trip it last asked for, None     *)
(* since it last cleared.                                                  *)
InitApi ==
    \E n \in 0..MaxTrips : Started("running", ValidKey, Pulled([i \in 1..n |-> i]), TRUE)

ApiCall ==
    /\ durable' = Committed(trips', logbook')
    /\ UNCHANGED <<boot, show_sync_setup, sync_in_progress, is_connected, menu,
                   screenVars>>
    /\ UNCHANGED <<syncVars, partVars, kv, httpVars, tasks, nextChange>>

ApiSetActive(id) ==
    /\ trips' = set_active_trip(trips, id)
    /\ active_trip' = IF id = NoTrip THEN NoTrip
                      ELSE IF Exists(trips, id) THEN id ELSE active_trip
    /\ logbook' = logbook
    /\ ApiCall

ApiAddEntry(trip_id, ts) ==
    /\ Len(logbook) < MaxEntries
    /\ logbook' = InsertEntry(logbook, [trip_id |-> trip_id, timestamp |-> ts])
    /\ UNCHANGED <<trips, active_trip>>
    /\ ApiCall

\* the lists of entry ids a caller passes: up to two ids, of entries in the
\* table or not
IdLists == UNION {[1..n -> 1..(MaxEntries + 1)] : n \in 0..2}

ApiMarkSynced(entry_ids) ==
    /\ logbook' = mark_logbook_entries_synced(logbook, entry_ids)
    /\ UNCHANGED <<trips, active_trip>>
    /\ ApiCall

NextApi ==
    \/ \E id \in TripIds \cup {NoTrip} : ApiSetActive(id)
    \/ \E trip_id \in TripIds, ts \in 1..MaxStamp : ApiAddEntry(trip_id, ts)
    \/ \E entry_ids \in IdLists : ApiMarkSynced(entry_ids)

SpecApi == InitApi /\ [][NextApi]_vars

(* A device with a valid key on its first run; Wi-Fi comes and goes while  *)
(* the main loop runs and the server answers the pings or not.             *)
InitPing == Started("running", ValidKey, EmptyTrips, FALSE)

LoopTick(wifi, dt) == Tick(wifi, dt, FALSE, FALSE)

NextPing ==
    \/ \E wifi \in BOOLEAN, dt \in Durations : LoopTick(wifi, dt)
    \/ \E t \in TaskIds : PingRequest(t) \/ PingDone(t)

SpecPing == InitPing /\ [][NextPing]_vars

(* A device under way: a trip is active, Wi-Fi stays connected and the key *)
(* is valid, speed and heading stay steady.  The main loop keeps running   *)
(* (time.sleep(1) returns) and every thread it starts runs to its end; the *)
(* user zooms now and then but starts nothing.                             *)
InitCruise == Started("running", ValidKey, StartTrip(Pulled([i \in TripIds |-> i]), 1, 0), TRUE)

\* an iteration of the main loop some time after the one before, with
\* Wi-Fi up and no significant change of speed or heading
CruiseTick ==
    \E due \in BOOLEAN : \E dt \in Durations \ {0} : Tick(TRUE, dt, due, FALSE)

CruiseThreads == \E t \in TaskIds : PingRequest(t) \/ PingDone(t)

NextCruise ==
    \/ CruiseTick
    \/ CruiseThreads
    \/ ButtonZoom

SpecCruise ==
    InitCruise /\ [][NextCruise]_vars /\ WF_vars(CruiseTick) /\ WF_vars(CruiseThreads)

(* A device with its trips pulled, with or without a trip under way: the   *)
(* main loop updates the display while the GPS reports a fix and changes   *)
(* of speed or heading, Wi-Fi comes and goes, and the user opens the menu  *)
(* and moves in it.                                                        *)
InitLog ==
    \E tr \in {Pulled([i \in TripIds |-> i]), StartTrip(Pulled([i \in TripIds |-> i]), 1, 0)} :
      Started("running", ValidKey, tr, TRUE)

\* an iteration in which _update_display would find a fix and a
\* significant change
TriggerTick(wifi, due) == Tick(wifi, 0, due, TRUE)

NextLog ==
    \/ \E wifi, due \in BOOLEAN : TriggerTick(wifi, due)
    \/ ButtonMenu
    \/ ButtonNavigate
    \/ ButtonBack
    \/ \E t \in TaskIds : SingleEntryQuery(t) \/ UploadEntries(t) \/ UploadFailed(t)
                           \/ MarkEntryStep(t) \/ MarkEntriesCommit(t)

SpecLog == InitLog /\ [][NextLog]_vars

(* A device is switched on, with any sync key; the user presses all four   *)
(* buttons, from the moment the callbacks are installed, while the main    *)
(* loop renders; the threads a press starts run.                           *)
InitSetup == \E key \in SyncKeys : Started("buttons", key, EmptyTrips, FALSE)

NextSetup ==
    \/ CheckSyncKeyStatus
    \/ Initialize
    \/ RenderTick
    \/ RenderDone
    \/ Buttons
    \/ Alive /\ \E t \in TaskIds : SyncNoTrips(t)

SpecSetup == InitSetup /\ [][NextSetup]_vars

(* The two menus in use: the user moves in the trip menu of the controller *)
(* with the buttons, and a caller drives the hierarchical MenuSystem with  *)
(* navigate_up, navigate_down, select and navigate_back.  The server has   *)
(* sent finished trips only.                                               *)
\* (the trips are completed ones: the menu shows them and offers no start)
Completed(tr) == [id \in TripIds |-> [tr[id] EXCEPT !.status = "COMPLETED"]]

InitMenus ==
    Started("running", ValidKey, Completed(Pulled([i \in TripIds |-> i])), TRUE)

TreeCall(tr) ==
    /\ Len(tr.menu_stack) <= MaxStack
    /\ tree' = tr
    /\ UNCHANGED <<navVars, syncVars, telemVars, hw, mapVars, tiles, extraVars, storeVars, httpVars, tasks,
                   nextChange>>

TreeUp == TreeCall(tree_navigate_up(tree))
TreeDown == TreeCall(tree_navigate_down(tree))
TreeSelect == TreeCall(select(tree, RowCount(trips)))
TreeBack == TreeCall(navigate_back(tree))

NextMenus ==
    \/ ButtonMenu
    \/ ButtonNavigate
    \/ ButtonSelect
    \/ ButtonBack
    \/ TreeUp
    \/ TreeDown
    \/ TreeSelect
    \/ TreeBack

SpecMenus == InitMenus /\ [][NextMenus]_vars

(* The receiver reports speeds and headings, and the main loop asks the    *)
(* GPSModule whether the change is significant.                            *)
InitGpsFixes == Started("running", ValidKey, EmptyTrips, TRUE)

\* _parse_nmea: a sentence sets speed and heading
GpsFix(s, h) ==
    /\ gps' = [gps EXCEPT !.speed = s, !.heading = h]
    /\ UNCHANGED <<navVars, syncVars, tree, gy511, rendered, hw, mapVars, tiles, extraVars, storeVars, httpVars,
                   tasks, nextChange>>

\* the call of has_significant_change() in _update_display
DetectChange ==
    /\ gps' = has_significant_change(gps)
    /\ UNCHANGED <<navVars, syncVars, tree, gy511, rendered, hw, mapVars, tiles, extraVars, storeVars, httpVars,
                   tasks, nextChange>>

NextGpsFixes ==
    \/ \E s \in Speeds, h \in Headings : GpsFix(s, h)
    \/ DetectChange

SpecGpsFixes == InitGpsFixes /\ [][NextGpsFixes]_vars

(* A device is switched on and its hardware is found or not; on the map,   *)
(* the receiver reports headings, the compass delivers samples or stalls,  *)
(* and the main loop renders the map.                                      *)
InitHeading == Started("constructed", ValidKey, EmptyTrips, TRUE)

\* GY511._read_loop: a sample
CompassSample(h) ==
    /\ gy511.available
    /\ gy511' = [gy511 EXCEPT !.heading = h, !.age = 0]
    /\ UNCHANGED <<navVars, syncVars, tree, gps, rendered, hw, mapVars, tiles, extraVars, storeVars, httpVars,
                   tasks, nextChange>>

\* a second passes without a sample
CompassAge ==
    /\ gy511.age # NoSample
    /\ gy511.age < MaxCompassAge
    /\ gy511' = [gy511 EXCEPT !.age = @ + 1]
    /\ UNCHANGED <<navVars, syncVars, tree, gps, rendered, hw, mapVars, tiles, extraVars, storeVars, httpVars,
                   tasks, nextChange>>

\* _update_display on the map, with a fix and without an active trip
RenderMap ==
    /\ boot = "running"
    /\ ~show_sync_setup
    /\ ~is_visible(menu)
    /\ active_trip = NoTrip
    /\ rendered' = [rendered EXCEPT !.heading = map_heading(gps, gy511)]
    /\ \E lat, lon \in Coords : mb' = get_reader_for_coordinates(mb, lat, lon).mb
    /\ UNCHANGED <<navVars, syncVars, tree, gps, gy511, hw, asked, tiles, extraVars, storeVars, httpVars,
                   tasks, nextChange>>

NextHeading ==
    \/ InitializeFails
    \/ Initialize
    \/ boot = "running" /\ \E h \in Headings : GpsFix(0, h)
    \/ \E h \in CompassHeadings : CompassSample(h)
    \/ CompassAge
    \/ RenderMap

SpecHeading == InitHeading /\ [][NextHeading]_vars

(* A device with up to MaxArchives regional files, whose bounds may        *)
(* overlap: the renderer asks for the reader of a position, and the region *)
(* is changed by hand with next and previous.                              *)
FileLists == UNION {[1..n -> Regions] : n \in 0..MaxArchives}

InitRegions == \E files \in FileLists : StartedOn("running", ValidKey, EmptyTrips, TRUE, files)

\* render_map(lat, lon, ...): get_reader_for_coordinates(lat, lon); the call
\* and its result may be remembered
ReaderFor(lat, lon, remember) ==
    LET r == get_reader_for_coordinates(mb, lat, lon)
    IN  /\ mb' = r.mb
        /\ asked' = (IF remember THEN [lat |-> lat, lon |-> lon, reader |-> r.reader]
                     ELSE asked)
        /\ UNCHANGED <<navVars, syncVars, tree, telemVars, hw, tiles, extraVars, storeVars, httpVars,
                       tasks, nextChange>>

SwitchNext ==
    /\ mb' = switch_to_next_file(mb)
    /\ UNCHANGED <<navVars, syncVars, tree, telemVars, hw, asked, tiles, extraVars, storeVars, httpVars,
                   tasks, nextChange>>

SwitchPrevious ==
    /\ mb' = switch_to_previous_file(mb)
    /\ UNCHANGED <<navVars, syncVars, tree, telemVars, hw, asked, tiles, extraVars, storeVars, httpVars,
                   tasks, nextChange>>

NextRegions ==
    \/ \E lat, lon \in Coords, remember \in BOOLEAN : ReaderFor(lat, lon, remember)
    \/ SwitchNext
    \/ SwitchPrevious

SpecRegions == InitRegions /\ [][NextRegions]_vars

(* An archive with tiles at some zoom levels is opened, and composite      *)
(* images are asked for at any zoom level.                                 *)
InitZoom == Started("running", ValidKey, EmptyTrips, TRUE)

\* MBTilesReader(filepath) on a file with these tiles
OpenArchive(coverage) ==
    /\ tiles = NoArchive
    /\ tiles' = [tiles EXCEPT !.coverage = coverage]
    /\ UNCHANGED <<navVars, syncVars, tree, telemVars, hw, mapVars, extraVars, storeVars,
                   httpVars, tasks, nextChange>>

\* generate_composite_image(lat, lon, zoom, ...): the zoom level each of
\* the two readers takes
ChooseZoom(zoom) ==
    LET available_zooms == get_available_zoom_levels(tiles.coverage)
    IN  /\ tiles' = [tiles EXCEPT
                       !.requested = zoom,
                       !.actual = [reader |-> find_best_zoom(available_zooms, zoom),
                                   converter |->
                                       get_best_available_zoom(available_zooms, zoom)]]
        /\ UNCHANGED <<navVars, syncVars, tree, telemVars, hw, mapVars, extraVars, storeVars,
                       httpVars, tasks, nextChange>>

NextZoom ==
    \/ \E coverage \in [ZoomLevels -> Ratios \cup {NoTiles}] : OpenArchive(coverage)
    \/ \E zoom \in ZoomLevels : ChooseZoom(zoom)

SpecZoom == InitZoom /\ [][NextZoom]_vars

(* A trip with a route is selected and the map is rendered with the route  *)
(* as overlay.                                                             *)
InitRoutes == Started("running", ValidKey, EmptyTrips, TRUE)

\* _handle_menu_action: the map points of the trip selected are loaded (one
\* trip is selected)
LoadMapPoints(points) ==
    /\ overlay.map_points = <<>>
    /\ overlay' = [map_points |-> points, lines |-> {}]
    /\ UNCHANGED <<fix, nmea, seen, waypoints>>
    /\ UNCHANGED <<navVars, syncVars, tree, telemVars, hw, mapVars, tiles, storeVars,
                   httpVars, tasks, nextChange>>

\* render_map with the map points: _add_overlays, _draw_map_points
DrawMapPoints ==
    /\ overlay' = [overlay EXCEPT !.lines = _draw_map_points(overlay.map_points)]
    /\ UNCHANGED <<fix, nmea, seen, waypoints>>
    /\ UNCHANGED <<navVars, syncVars, tree, telemVars, hw, mapVars, tiles, storeVars,
                   httpVars, tasks, nextChange>>

NextRoutes ==
    \/ \E n \in 0..MaxRoute : \E points \in [1..n -> TileOffsets] : LoadMapPoints(points)
    \/ DrawMapPoints

SpecRoutes == InitRoutes /\ [][NextRoutes]_vars

(* The receiver sends $GPGGA sentences, complete or with empty or garbled  *)
(* fields; each is parsed before the next one is read.                     *)
InitNmea == Started("running", ValidKey, EmptyTrips, TRUE)

\* _read_loop: parse_nmea(line) on a $GPGGA sentence; if it reaches its end,
\* _calculate_speed_heading sets speed and heading
ParseSentence(s) ==
    /\ nmea.pc = Done
    /\ fix' = parse_nmea(fix, s)
    /\ IF reaches_end(s)
       THEN \E d \in Derived :
              gps' = [gps EXCEPT !.speed = d.speed, !.heading = d.heading]
       ELSE gps' = gps
    /\ UNCHANGED <<nmea, seen, overlay, waypoints>>
    /\ UNCHANGED <<navVars, syncVars, tree, gy511, rendered, hw, mapVars, tiles,
                   storeVars, httpVars, tasks, nextChange>>

NextNmea == \E s \in Sentences : ParseSentence(s)

SpecNmea == InitNmea /\ [][NextNmea]_vars

(* The same with complete sentences, the reader thread taking one          *)
(* statement of parse_nmea at a time while the main loop calls             *)
(* get_status().                                                           *)
InitFixReader == Started("running", ValidKey, EmptyTrips, TRUE)

\* _read_loop: a line is read and parse_nmea(line) is entered
ReadLine(s) ==
    /\ nmea.pc = Done
    /\ nmea' = [pc |-> 0, sentence |-> s, start |-> fix]
    /\ UNCHANGED <<fix, seen, overlay, waypoints>>
    /\ UNCHANGED <<navVars, syncVars, tree, telemVars, hw, mapVars, tiles, storeVars,
                   httpVars, tasks, nextChange>>

\* the next statement of parse_nmea; the last one is
\* _calculate_speed_heading
ParseStep ==
    /\ nmea.pc # Done
    /\ LET r == gga_step(fix, nmea.sentence, nmea.pc)
       IN  /\ fix' = r.fix
           /\ nmea' = [nmea EXCEPT !.pc = r.pc]
    /\ IF nmea.pc = 7
       THEN \E d \in Derived :
              gps' = [gps EXCEPT !.speed = d.speed, !.heading = d.heading]
       ELSE gps' = gps
    /\ UNCHANGED <<seen, overlay, waypoints>>
    /\ UNCHANGED <<navVars, syncVars, tree, gy511, rendered, hw, mapVars, tiles,
                   storeVars, httpVars, tasks, nextChange>>

\* the main loop: gps_status = self.gps.get_status()
GetStatus ==
    /\ seen' = get_status(fix)
    /\ UNCHANGED <<fix, nmea, overlay, waypoints>>
    /\ UNCHANGED <<navVars, syncVars, tree, telemVars, hw, mapVars, tiles, storeVars,
                   httpVars, tasks, nextChange>>

NextFixReader ==
    \/ \E s \in FullSentences : ReadLine(s)
    \/ ParseStep
    \/ GetStatus

SpecFixReader == InitFixReader /\ [][NextFixReader]_vars

(* A device that pulls payloads with waypoints: store_device_sync_data is  *)
(* called with one payload after the other, each call running to its       *)
(* commit.                                                                 *)
InitPull == Started("running", ValidKey, EmptyTrips, TRUE)

\* sync_device_data: self.db.store_device_sync_data(data)
StoreSyncData(payload) ==
    /\ LET s == store_device_sync_data([trips |-> trips, waypoints |-> waypoints],
                                       payload)
       IN  /\ Len(s.waypoints) <= MaxWaypointRows
           /\ trips' = s.trips
           /\ waypoints' = s.waypoints
    /\ durable' = Committed(trips', logbook)
    /\ UNCHANGED <<overlay, fix, nmea, seen>>
    /\ UNCHANGED <<navVars, syncVars, tree, telemVars, hw, mapVars, tiles, logbook, kv,
                   httpVars, tasks, nextChange>>

NextPull == \E payload \in Payloads : StoreSyncData(payload)

SpecPull == InitPull /\ [][NextPull]_vars

----------------------------------------------------------------------------
(* Properties *)

C2_LocalStatusIsPending ==
    \A id \in TripIds :
      (Exists(trips, id) /\ trips[id].local_status # NULL) =>
        /\ trips[id].sync_status = PENDING
        /\ id \in Range(get_trips_needing_sync(trips))

\* C3: a drain reads every trip that needs sync with its local status s,
\* sends a PUT with s for the trip in turn, marks the trip synced (so that
\* trips_needing_sync no longer returns it) exactly when the answer is 200,
\* and leaves the trips table alone on every other answer
C3_DrainPushes ==
    [][\A t \in TaskIds :
         (tasks[t].kind = "sync" /\ tasks'[t] # tasks[t]) =>
           /\ (tasks[t].pc = "drain") =>
                 /\ tasks'[t].pc = "push"
                 /\ \A id \in TripIds :
                      NeedsSync(trips[id]) <=>
                        \E i \in 1..Len(tasks'[t].snap) :
                          /\ tasks'[t].snap[i].id = id
                          /\ tasks'[t].snap[i].status = trips[id].local_status
           /\ (tasks[t].pc = "push" /\ tasks[t].j <= Len(tasks[t].snap)) =>
                 LET e == tasks[t].snap[tasks[t].j]
                 IN  /\ tasks'[t].put = [trip |-> e.id, status |-> e.status]
                     /\ IF tasks'[t].resp = 200
                        THEN tasks'[t].pc = "mark_trip" /\ tasks'[t].j = tasks[t].j
                        ELSE /\ tasks'[t].pc = "push"
                             /\ tasks'[t].j = tasks[t].j + 1
                             /\ trips' = trips
           /\ (tasks[t].pc = "mark_trip") =>
                 LET id == tasks[t].snap[tasks[t].j].id
                 IN  /\ trips'[id].sync_status = SYNCED
                     /\ id \notin Range(get_trips_needing_sync(trips'))
      ]_vars

\* a drain is about to mark a pushed trip synced after the push of another
\* trip has failed
C3_Witness ==
    \E t \in TaskIds :
      /\ tasks[t].kind = "sync" /\ tasks[t].pc = "mark_trip"
      /\ tasks[t].j > 1
      /\ NeedsSync(trips[tasks[t].snap[1].id])

\* C4: an entry goes from pending to synced only in the marking that
\* follows a bulk upload which contained it and was answered 200 or 201; an
\* upload that failed leaves the logbook as it is; no entry is ever deleted
C4_SyncedByAcceptedUpload ==
    [][/\ Len(logbook') >= Len(logbook)
       /\ \A i \in 1..Len(logbook) :
            /\ logbook'[i].trip_id = logbook[i].trip_id
            /\ (logbook[i].sync_status = PENDING /\ logbook'[i].sync_status = SYNCED) =>
                 \E t \in TaskIds :
                   /\ tasks[t].pc = "mark_entries"
                   /\ tasks[t].resp \in {200, 201}
                   /\ i \in Range(tasks[t].batch)
       /\ \A t \in TaskIds :
            (tasks[t].pc = "upload" /\ tasks'[t].pc = "upload_failed") =>
              /\ tasks'[t].resp \notin {200, 201}
              /\ logbook' = logbook
      ]_vars

\* one entry has been marked synced after an accepted upload while the
\* upload of another has failed and left it pending
C4_Witness ==
    \E t \in TaskIds, i, j \in 1..Len(logbook) :
      /\ tasks[t].pc = "upload_failed"
      /\ j \in Range(tasks[t].batch)
      /\ logbook[j].sync_status = PENDING
      /\ logbook[i].sync_status = SYNCED

\* C5: no row written by a store_device_sync_data call that gave up
\* part-way is in the store, neither in the connection's view nor committed
C5_AllOrNothing ==
    \A id \in TripIds :
      /\ trips[id].origin # Abandoned
      /\ durable.trips[id].origin # Abandoned

\* C6: while a thread marks an uploaded batch, a reader of the store finds
\* either all entries of the batch synced or none
C6_BatchMarkedAtomically ==
    \A t \in TaskIds :
      tasks[t].pc = "mark_entries" =>
        \/ \A i \in Range(tasks[t].batch) : logbook[i].sync_status = SYNCED
        \/ \A i \in Range(tasks[t].batch) : logbook[i].sync_status = PENDING

\* C7: while a thread is between the first statement of a multi-row
\* operation and its commit, no step of another thread changes the store or
\* commits
C7_OperationsSerialized ==
    [][\A t \in TaskIds :
         (/\ \/ tasks[t].pc = "store" /\ tasks[t].n > 0
             \/ tasks[t].pc = "mark_entries" /\ tasks[t].k > 1
          /\ tasks'[t] = tasks[t]) =>
           UNCHANGED <<trips, logbook, kv, durable>>
      ]_vars

\* C8: with a sync key that is missing or not valid no HTTP request is sent
\* and the store stays as it was
C8_NoSyncWithoutValidKey ==
    ~is_valid_sync_key(sync_key) =>
      /\ ~sent
      /\ kv = [last_ping |-> FALSE, last_full_sync |-> FALSE]
      /\ trips = EmptyTrips
      /\ durable = Committed(EmptyTrips, <<>>)

\* C9: a drain turns to the logbook only after a push has been attempted for
\* every trip it read, a failed push moves on to the next trip, and the one
\* bulk upload that follows holds every pending entry
C9_PushesThenOneUpload ==
    [][\A t \in TaskIds :
         (tasks[t].kind = "sync" /\ tasks'[t] # tasks[t]) =>
           /\ (tasks[t].pc = "push" /\ tasks'[t].pc \in {"upload", "finish"}) =>
                 /\ tasks[t].j > Len(tasks[t].snap)
                 /\ Range(tasks'[t].batch) =
                      {i \in 1..Len(logbook) : logbook[i].sync_status = PENDING}
                 /\ (tasks'[t].pc = "finish") <=> (tasks'[t].batch = <<>>)
           /\ (tasks[t].pc \in {"push", "mark_trip"} /\ tasks'[t].j = tasks[t].j + 1) =>
                 tasks'[t].put.trip = tasks[t].snap[tasks[t].j].id
           /\ (/\ tasks[t].pc = "push" /\ tasks[t].j <= Len(tasks[t].snap)
               /\ tasks'[t].resp # 200) =>
                 tasks'[t].pc = "push" /\ tasks'[t].j = tasks[t].j + 1
           /\ (tasks'[t].pc = "mark_entries" /\ tasks[t].pc # "mark_entries") =>
                 tasks[t].pc = "upload" /\ tasks'[t].posts = 1
           /\ tasks'[t].posts <= 1
      ]_vars

\* a drain uploads a batch of several entries after a push has failed
C9_Witness ==
    \E t \in TaskIds, id \in TripIds :
      /\ tasks[t].kind = "sync" /\ tasks[t].pc = "upload"
      /\ Len(tasks[t].batch) > 1
      /\ NeedsSync(trips[id])
      /\ putSeen # {}

\* C10: when the first PUT for a status change is sent, no PUT for a later
\* change has been sent
C10_PutsInChangeOrder ==
    [][\A a \in putSeen' \ putSeen : \A b \in putSeen : b < a]_vars

\* C11: once shutdown has started, the only step a thread takes is to
\* return, without a request and without a statement on the store (so none
\* after the database has been closed), and the closed database holds no
\* row of a store_device_sync_data call that did not finish
C11_TasksStopAtShutdown ==
    [][/\ (boot \in {"stopping", "stopped"} /\ tasks' # tasks) =>
            /\ \A t \in TaskIds : tasks'[t] \in {tasks[t], IdleTask}
            /\ UNCHANGED <<trips, logbook, kv, durable, sent, putSeen>>
       /\ boot' = "stopped" =>
            \A id \in TripIds : durable'.trips[id].origin = 0
      ]_vars

\* C12: a refresh flag that a button set while a render was in flight is not
\* cleared before a render that started after the press: no step clears
\* force_update while the press made during the current render is pending
C12_FlagSurvivesRender ==
    [][(pressed /\ force_update) => force_update']_vars

C14_MarkSyncedIdempotent ==
    [][/\ \A entry_ids \in IdLists :
            (\A k \in 1..Len(entry_ids) :
               /\ entry_ids[k] \in 1..Len(logbook')
               /\ logbook'[entry_ids[k]].sync_status = SYNCED)
            => mark_logbook_entries_synced(logbook', entry_ids) = logbook'
       /\ \A i \in 1..Len(logbook) :
            logbook[i].sync_status = SYNCED =>
              /\ i \in 1..Len(logbook')
              /\ logbook'[i].sync_status = SYNCED
              /\ \A s \in get_unsynced_logbook_entries(logbook') : i \notin Range(s)
      ]_vars

\* one entry has been marked synced while another is pending
C14_Witness ==
    \E i, j \in 1..Len(logbook) :
      /\ logbook[i].sync_status = SYNCED
      /\ logbook[j].sync_status = PENDING
      /\ i < j

\* C15: whatever the logbook holds, every result of get_logbook_entries
\* (the recent entries of a trip, or of all trips) lists ids in strictly
\* decreasing order and every result of get_unsynced_logbook_entries lists
\* ids in strictly increasing order
C15_QueriesOrderedById ==
    /\ \A trip_id \in TripIds \cup {NoTrip} : \A limit \in 1..MaxEntries :
         \A s \in get_logbook_entries(logbook, trip_id, limit) :
           \A i, j \in 1..Len(s) : i < j => s[i] > s[j]
    /\ \A s \in get_unsynced_logbook_entries(logbook) :
         \A i, j \in 1..Len(s) : i < j => s[i] < s[j]

\* C16: an iteration of the main loop with Wi-Fi up and a valid key starts
\* a ping exactly if no ping has been recorded or at least ping_interval
\* (60) seconds have passed since the last recorded one, and a ping is
\* recorded (last_ping_time and the 'last_ping' row) only in a step in
\* which the server answers 200
PingStarted == \E t \in TaskIds : tasks[t].kind = "none" /\ tasks'[t].kind = "ping"

C16_PingDueAndRecorded ==
    [][/\ \A wifi \in BOOLEAN, dt \in Durations :
            LoopTick(wifi, dt) /\ wifi /\ is_valid_sync_key(sync_key) =>
              (PingStarted <=> (ping_age = NoPing \/ ping_age + dt >= 60))
       /\ ((ping_age' = 0 /\ ping_age # 0) \/ (kv'.last_ping /\ ~kv.last_ping)) =>
            \E t \in TaskIds : /\ tasks[t].pc = "ping"
                                /\ tasks'[t].pc = "pinged"
                                /\ tasks'[t].resp = 200
      ]_vars

\* a ping has been recorded, the interval has passed since and a ping is
\* started again
C16_Witness ==
    /\ kv.last_ping
    /\ ping_age >= 60
    /\ \E t \in TaskIds : tasks[t].kind = "ping" /\ tasks[t].pc = "ping"

\* C17: while Wi-Fi is connected and synchronization is enabled, the main
\* loop starts a synchronization task (pull, then drain) once the sync
\* interval has passed: as time goes on a synchronization thread is
\* eventually running
C17_LoopStartsSync ==
    <>(\E t \in TaskIds : tasks[t].kind = "sync")

\* C18: while a trip is active a logbook entry is recorded once the logbook
\* interval has passed, even when speed and heading do not change
\* significantly: as time goes on the logbook eventually holds an entry of
\* the active trip
C18_PeriodicEntry ==
    <>(\E i \in 1..Len(logbook) : logbook[i].trip_id = active_trip)

\* C19: an iteration of the main loop that updates the display while a
\* logbook trigger fires inserts, if a trip is active, one entry with the
\* active trip's id whatever screen is shown, and no entry if no trip is
\* active; it starts the upload of the entry only if Wi-Fi is connected
UploadStarted ==
    \E t \in TaskIds : tasks[t].kind = "none" /\ tasks'[t].kind = "single_entry"

C19_EntryOnEveryTrigger ==
    [][\A wifi, due \in BOOLEAN :
         TriggerTick(wifi, due) /\ (due \/ force_update) =>
           /\ active_trip # NoTrip =>
                /\ Len(logbook') = Len(logbook) + 1
                /\ logbook'[Len(logbook')].trip_id = active_trip
           /\ active_trip = NoTrip => logbook' = logbook
           /\ UploadStarted => wifi
      ]_vars

\* C20: while the sync setup screen is active, a press of any button only
\* re-evaluates the key (the screen stays exactly if the key is not valid)
\* and requests a refresh: zoom and menu stay as they are and no thread is
\* started
C20_SetupButtonsOnlyRecheck ==
    [][(show_sync_setup /\ Buttons) =>
         /\ show_sync_setup' = ~is_valid_sync_key(sync_key)
         /\ force_update'
         /\ UNCHANGED <<current_zoom, menu, tasks, sync_in_progress, sent>>
         /\ UNCHANGED <<active_trip, trips, logbook, kv>>
      ]_vars

\* a button has been pressed on the sync setup screen of a running device
\* whose zoom the user had changed before the screen came up
C20_Witness ==
    /\ show_sync_setup
    /\ force_update
    /\ boot \in {"running", "rendering"}
    /\ current_zoom # default_zoom

MenuCount(m) == IF m.state = TRIP_LIST THEN Len(m.trips) ELSE Len(m.menu_options)
MenuIndex(m) ==
    IF m.state = TRIP_LIST THEN m.selected_trip_index ELSE m.selected_option_index
TreeIndex(tr) == tr.selected_index[tr.current_menu]

C22_NavigationCycles ==
    /\ LET n == Len(TreeItems(tree))
       IN  n >= 1 =>
             /\ TreeIndex(tree) \in 0..(n - 1)
             /\ TreeIndex(tree_navigate_up(tree)) = (TreeIndex(tree) - 1) % n
             /\ TreeIndex(tree_navigate_down(tree)) = (TreeIndex(tree) + 1) % n
    /\ LET n == MenuCount(menu)
       IN  (is_visible(menu) /\ n >= 1) =>
             /\ MenuIndex(menu) \in 0..(n - 1)
             /\ MenuIndex(navigate_up(menu)) = (MenuIndex(menu) - 1) % n
             /\ MenuIndex(navigate_down(menu)) = (MenuIndex(menu) + 1) % n

\* C23: in each of the two menus, back from a menu that was entered by a
\* select returns to the menu it was entered from, and back at the root
\* menu leaves the menu for the map (the trip menu is hidden; the caller of
\* the hierarchical menu is told to exit)
Origins(m) ==
    CASE m \in {"trip", "logbook", "system"} -> {"main"}
      [] m = "trips" -> {"trip"}
      [] m = "selected" -> {"trips"}
      [] m = "leaf" -> {"logbook", "system", "selected"}
      [] OTHER -> {}

C23_BackPops ==
    [][/\ tree.current_menu # "main" =>
            navigate_back(tree).current_menu \in Origins(tree.current_menu)
       /\ (tree'.current_menu # tree.current_menu
              /\ Len(tree'.menu_stack) > Len(tree.menu_stack)) =>
            navigate_back(tree').current_menu = tree.current_menu
       /\ tree.current_menu = "main" =>
            navigate_back(tree).result = "exit_menu"
       /\ (menu.state = TRIP_LIST /\ menu'.state = TRIP_SELECTED) =>
            go_back(menu', trips').menu.state = TRIP_LIST
       /\ (menu.state = HIDDEN /\ menu'.state = TRIP_SELECTED) =>
            go_back(menu', trips').menu.state = HIDDEN
       /\ menu.state = TRIP_LIST =>
            LET r == go_back(menu, trips)
            IN  r.menu.state = HIDDEN /\ r.action = "back_to_map"
      ]_vars

\* C24: the detector fires exactly when the speed differs from the speed of
\* the last significant change by at least 2 km/h or the heading differs
\* from the heading of the last significant change by an angle of at least
\* 15 degrees, the angle being min(|h - h_prev|, 360 - |h - h_prev|); the
\* heading difference the detector compares is never more than 180 degrees
C24_SignificantChange ==
    /\ has_significant_change(gps).significant <=>
         \/ Abs(gps.speed - gps.prev_speed) >= 2
         \/ heading_difference_Angular(gps.heading, gps.prev_heading) >= 15
    /\ heading_difference(gps.heading, gps.prev_heading) <= 180

\* C25: the heading given to the map is the compass heading whenever the
\* compass is available and its latest sample is at most 5 seconds old, and
\* the GNSS heading otherwise
C25_CompassPreferred ==
    boot = "running" =>
        map_heading(gps, gy511) =
            IF gy511.available /\ gy511.age # NoSample /\ gy511.age <= 5
            THEN gy511.heading
            ELSE gps.heading

\* C26: for every position that the bounds of the current archive contain,
\* get_reader_for_coordinates returns the current archive and leaves it
\* current, also when it was made current by hand and another archive
\* contains the position too
C26_CurrentKept ==
    \A lat, lon \in Coords :
        (/\ mb.current_reader # NoReader
         /\ contains_coordinates(mb.readers[mb.current_reader], lat, lon)) =>
            LET r == get_reader_for_coordinates(mb, lat, lon)
            IN  r.reader = mb.current_reader /\ r.mb.current_reader = mb.current_reader

\* C27: with the same files, get_reader_for_coordinates returns for a
\* position the archive it returned for that position before, whichever
\* archive is current and whatever calls were made in between
C27_SameAnswer ==
    asked.reader # NoReader =>
        /\ get_reader_for_coordinates(mb, asked.lat, asked.lon).reader = asked.reader
        /\ \A c \in OpenReaders(mb) :
             get_reader_for_coordinates(
                 [mb EXCEPT !.current_reader = c, !.current_file_index = c - 1],
                 asked.lat, asked.lon).reader = asked.reader

C27_Witness ==
    /\ asked.reader # NoReader
    /\ mb.current_reader # asked.reader
    /\ contains_coordinates(mb.readers[mb.current_reader], asked.lat, asked.lon)

\* C28: never more than max_open_files (3) archives are open at a time
C28_OpenFilesBounded == Cardinality(OpenReaders(mb)) <= max_open_files

\* C29: with alpha_min = 10 percent and the score of a level z being
\* 100 (z >= 12), 50 (10 <= z < 12) or 10 (z < 10), plus 200 times its
\* coverage ratio, minus 10 |z - z*|, plus 50 if z = z*: the zoom level
\* chosen for a requested level z* is z* whenever z* is available with a
\* coverage of at least alpha_min; otherwise it is a highest-scoring
\* available level, unless the coverage of that level is below alpha_min, in
\* which case it is a highest-scoring one among the levels with a coverage
\* of at least alpha_min, or a highest-scoring level if there is none
C29_BestZoom ==
    LET available == get_available_zoom_levels(tiles.coverage)
        ratio(z) == tiles.coverage[z]
        score(z) ==
            (IF z >= 12 THEN 100 ELSE IF z >= 10 THEN 50 ELSE 10)
            + 2 * ratio(z) - 10 * Abs(z - tiles.requested)
            + (IF z = tiles.requested THEN 50 ELSE 0)
        Top(zs) == {z \in zs : \A y \in zs : score(z) >= score(y)}
        covered == {z \in available : ratio(z) >= 10}
        expected ==
            IF tiles.requested \in covered THEN {tiles.requested}
            ELSE IF Top(available) \cap covered # {} THEN Top(available) \cap covered
            ELSE IF covered # {} THEN Top(covered)
            ELSE Top(available)
    IN  (tiles.requested # NoZoom /\ available # {}) =>
            /\ tiles.actual.reader \in expected
            /\ tiles.actual.converter \in expected

C31_LinesJoinNeighbours ==
    \A line \in overlay.lines :
        /\ line[2] = line[1] + 1
        /\ \/ on_screen(overlay.map_points[line[1]])
           \/ on_screen(overlay.map_points[line[2]])

\* C32: every GGA sentence sets fix_quality to the value it carries, also
\* when its latitude and longitude are empty, and every other field whose
\* text is empty keeps its previous value.
C32_QualityAuthoritative ==
    \A s \in Sentences :
        (\A f \in NumericFields : s[f] # BadText) =>
            LET after == parse_nmea(fix, s)
            IN  /\ s.quality >= 0 => after.fix_quality = s.quality
                /\ s.lat = EmptyText => after.latitude = fix.latitude
                /\ s.lon = EmptyText => after.longitude = fix.longitude
                /\ s.sats = EmptyText => after.satellites = fix.satellites
                /\ s.alt = EmptyText => after.altitude = fix.altitude

\* C33: a sentence with a non-numeric value in a numeric field updates no
\* field: the fix after parse_nmea equals the fix before.
C33_InvalidUpdatesNothing ==
    \A s \in Sentences :
        (\E f \in NumericFields : s[f] = BadText) =>
            parse_nmea(fix, s) = fix

\* C34: get_status() called while parse_nmea runs returns the attributes as
\* they were before the sentence or as they are after it, and never a
\* positive latitude or longitude of a southern or western sentence.
C34_NoTornFix ==
    nmea.pc # Done =>
        /\ get_status(fix) \in {nmea.start, parse_nmea(nmea.start, nmea.sentence)}
        /\ nmea.pc >= 1 /\ nmea.sentence.ns = "S" => get_status(fix).latitude <= 0
        /\ nmea.pc >= 3 /\ nmea.sentence.ew = "W" => get_status(fix).longitude <= 0

\* C35: the detector replaces (prev_speed, prev_heading) by the current
\* speed and heading exactly when it fires and leaves both as they are when
\* it does not; speed and heading are never changed by it, and a second
\* call right after the first never fires.
C35_ReferenceUpdatedOnFiring ==
    LET once == has_significant_change(gps)
        twice == has_significant_change(once)
    IN  /\ once.speed = gps.speed /\ once.heading = gps.heading
        /\ once.significant =>
             once.prev_speed = gps.speed /\ once.prev_heading = gps.heading
        /\ ~once.significant =>
             once.prev_speed = gps.prev_speed /\ once.prev_heading = gps.prev_heading
        /\ ~twice.significant
        /\ twice.prev_speed = once.prev_speed /\ twice.prev_heading = once.prev_heading

\* the detector has fired on a speed and a heading other than the initial
\* ones, and the reference values are the current ones
C35_Witness ==
    /\ gps.significant
    /\ gps.speed > 0 /\ gps.heading > 0
    /\ gps.prev_speed = gps.speed /\ gps.prev_heading = gps.heading

\* C36: a pending local status whose change has not been sent to the server
\* is not discarded: as long as no newer change replaces it, a trip that
\* needs sync with a status no PUT has carried still needs sync with that
\* status after every step, also after the step that marks an earlier push
\* of the trip as synced.
C36_PendingStatusKept ==
    [][\A id \in TripIds :
         (/\ NeedsSync(trips[id])
          /\ trips[id].chg \notin putSeen
          /\ trips'[id].chg = trips[id].chg) =>
             /\ NeedsSync(trips'[id])
             /\ trips'[id].local_status = trips[id].local_status
      ]_vars

\* C37: no logbook entry is contained in two accepted uploads: when an
\* upload is answered 200 or 201, no entry of its batch is already synced
\* (which, by C4, takes an accepted upload that contained it) and none is in
\* the batch of another accepted upload that is still being marked.
C37_UploadedOnce ==
    [][\A t \in TaskIds :
         (tasks[t].pc = "upload" /\ tasks'[t].pc = "mark_entries") =>
            \A i \in Range(tasks[t].batch) :
              /\ logbook[i].sync_status = PENDING
              /\ \A u \in TaskIds \ {t} :
                   ~(tasks[u].pc = "mark_entries" /\ i \in Range(tasks[u].batch))
      ]_vars

\* C38: at most one _ping_device thread is in flight at any time.
C38_OnePingInFlight ==
    Cardinality({t \in TaskIds : tasks[t].kind = "ping"}) <= 1

\* C39: at most one _perform_sync runs at a time, and sync_in_progress is
\* true exactly while one is running (from its first statement, which sets
\* the flag, to its end).
C39_OneSyncFlagged ==
    /\ Cardinality({t \in TaskIds : tasks[t].kind = "sync"}) <= 1
    /\ sync_in_progress <=>
         \E t \in TaskIds : tasks[t].kind = "sync" /\ tasks[t].pc # "begin"

\* C40: storing a payload a second time leaves the trips and the waypoints
\* tables as they are after storing it once.
C40_StoreTwiceIsStoreOnce ==
    \A payload \in Payloads :
        LET once == store_device_sync_data([trips |-> trips, waypoints |-> waypoints],
                                           payload)
        IN  store_device_sync_data(once, payload) = once

====
